---- MODULE Spec2Model ----
(***************************************************************************)
(* Model of the data normalization and aggregation engine of the Steam     *)
(* analysis dashboard (src/analysis/data_loader.py).  The functions are    *)
(* pure transforms over in-memory game records, so each specification      *)
(* draws the arguments of a call in its initial state and has one action   *)
(* per function, which stores what the call returns.                       *)
(*                                                                         *)
(* Conventions.  A missing or null field of a record is the value 0 (the   *)
(* code reads every numeric field as `x.get(k) or 0`) or the empty         *)
(* sequence.  An optional argument is <<>> for None and <<v>> for the      *)
(* value v.  A dict is a function whose DOMAIN is its key set.             *)
(***************************************************************************)
EXTENDS Integers, Sequences, FiniteSets, TLC

VARIABLES
    op,          \* the function that was called last ("none" before any call)
    history,     \* argument: game["history"], a list of snapshots
    freq,        \* argument: "yearly" | "monthly"
    increments,  \* value returned by the period increment calculators
    games,       \* argument: the list of game records
    criteria,    \* arguments of filter_games: tags, genres, year_min, ...
    filtered,    \* value returned by filter_games
    stats,       \* value returned by get_genre_stats / get_tag_stats
    window,      \* arguments of get_history_aggregate: year_min, year_max
    trends,      \* value returned by get_yearly_trends / get_history_aggregate
    weight_by,   \* argument of get_country_aggregate
    countries,   \* value returned by get_country_aggregate
    top_n,       \* argument of get_audience_overlap_top
    sort_by,     \* argument of get_audience_overlap_top
    overlaps,    \* value returned by get_audience_overlap_top
    edges,       \* value returned by get_audience_overlap_network
    summary,     \* value returned by get_activity_summary
    val,         \* argument of _parse_parquet_value
    normalized,  \* value returned by _parse_parquet_value
    renormalized,\* value returned by _parse_parquet_value for that value
    raised,      \* the exception the last call ended with ("none": it returned)
    budget,      \* number of calls the caller still makes
    appids,        \* argument of collect_game_details
    progress_file, \* content of _progress.json
    out_files,     \* app ids whose <appid>.json was written in this run
    detail_requests, \* app ids for which a game/<appid> request was sent in this run
    pc,            \* position of collect_game_details
    done_set,      \* local of collect_game_details
    failed_set,    \* local of collect_game_details
    remaining,     \* local of collect_game_details
    loop_i,        \* loop counter i of collect_game_details
    attempt,       \* loop counter of api_get
    requests,      \* HTTP requests sent by the current call of api_get
    status,        \* outcome of the last HTTP request of api_get
    api_data       \* value data returned by api_get

incVars == <<history, increments>>

filterVars == <<criteria, filtered>>

rollupVars == <<stats>>

trendVars == <<window, trends>>

countryVars == <<weight_by, countries>>

overlapVars == <<top_n, sort_by, overlaps, edges>>

activityVars == <<summary>>

normVars == <<val, normalized, renormalized>>

apiVars == <<attempt, requests, status, api_data>>

collectVars == <<appids, progress_file, out_files, detail_requests, pc, done_set, failed_set,
                 remaining, loop_i, apiVars>>

vars == <<op, raised, budget, games, freq, incVars, filterVars, rollupVars, trendVars,
          countryVars, overlapVars, activityVars, normVars, collectVars>>

None == <<>>

Some(v) == <<v>>

\* the elements of a list
Elems(s) == {s[i] : i \in 1..Len(s)}

(***************************************************************************)
(* Bounds of the model.                                                    *)
(***************************************************************************)
MaxHist == 3          \* snapshots in one history
MaxGames == 3         \* records in one collection

(***************************************************************************)
(* Time.  A timestamp is a number of ticks since the epoch (the code's     *)
(* milliseconds, scaled down); 0 stands for an absent timestamp, which     *)
(* `if not ts` skips.  datetime.fromtimestamp(..).year and                 *)
(* strftime("%Y-%m") are the calendar below; a "YYYY-MM" key is the        *)
(* integer YYYY * 100 + MM, which orders as the strings do.                *)
(***************************************************************************)
TicksPerMonth == 2
MonthsPerYear == 2

YearOf(ts) == 1970 + (ts \div (TicksPerMonth * MonthsPerYear))

MonthOf(ts) == ((ts \div TicksPerMonth) % MonthsPerYear) + 1

YearMonthOf(ts) == YearOf(ts) * 100 + MonthOf(ts)

PeriodOf(ts, f) == IF f = "yearly" THEN YearOf(ts) ELSE YearMonthOf(ts)

\* a timestamp that int(ts) or datetime.fromtimestamp rejects: a number outside
\* the range of datetime, below every timestamp that converts
Unparseable == 0 - 1

\* a timestamp that is present with the value None
Null == 0 - 2

\* if not ts: continue      (the key is missing, or its value is 0 or None)
NoTimeStamp(ts) == ts = 0 \/ ts = Null

\* try: datetime.fromtimestamp(int(ts) / 1000) except Exception: continue
ConversionFails(ts) == ts = Unparseable

\* sample of timestamps: absent, then 1970-01, 1970-02 (twice), 1971-01, 1972-01
TimeStamps == {0, 1, 2, 3, 5, 9}

Cumulatives == 0..1

Snapshots == [timeStamp : TimeStamps, sales : Cumulatives, revenue : Cumulatives]

SeqsUpTo(S, n) == UNION {[1..k -> S] : k \in 0..n}

Histories == SeqsUpTo(Snapshots, MaxHist)

\* the two documented values of freq and one that is not documented
Freqs == {"yearly", "monthly", "weekly"}

(***************************************************************************)
(* Helpers standing for Python built-ins.                                  *)
(***************************************************************************)
Max0(x) == IF x > 0 THEN x ELSE 0                  \* max(0, x)

SetMin(S) == CHOOSE x \in S : \A y \in S : x <= y

RECURSIVE SortedKeys(_)
SortedKeys(S) ==                                   \* sorted(d.keys())
    IF S = {} THEN <<>>
    ELSE LET m == SetMin(S) IN <<m>> \o SortedKeys(S \ {m})

Put(d, k, v) == (k :> v) @@ d                       \* d[k] = v

EmptyDict == [x \in {} |-> 0]

\* sorted(history, key=lambda x: x.get("timeStamp", 0)) compares the keys with
\* <: None against a number, or against None, is a TypeError
SortRaises(h) == Len(h) >= 2 /\ \E i \in 1..Len(h) : h[i].timeStamp = Null

\* sorted(history, key=lambda x: x.get("timeStamp", 0)): stable, ascending
RECURSIVE InsertByTimeStamp(_, _)
InsertByTimeStamp(s, item) ==
    IF s = <<>> THEN <<item>>
    ELSE IF s[Len(s)].timeStamp <= item.timeStamp THEN Append(s, item)
    ELSE Append(InsertByTimeStamp(SubSeq(s, 1, Len(s) - 1), item), s[Len(s)])

RECURSIVE SortByTimeStamp(_)
SortByTimeStamp(h) ==
    IF h = <<>> THEN <<>>
    ELSE InsertByTimeStamp(SortByTimeStamp(SubSeq(h, 1, Len(h) - 1)), h[Len(h)])

(***************************************************************************)
(* _get_yearly_increments                                                  *)
(***************************************************************************)
\* for item in history: ... by_year[yr] = item   (input order, later overwrites)
RECURSIVE CollectByYear(_, _, _)
CollectByYear(h, i, by_year) ==
    IF i > Len(h) THEN by_year
    ELSE IF NoTimeStamp(h[i].timeStamp) \/ ConversionFails(h[i].timeStamp)
         THEN CollectByYear(h, i + 1, by_year)
    ELSE CollectByYear(h, i + 1, Put(by_year, YearOf(h[i].timeStamp), h[i]))

\* variant: the increments are not clamped at 0
YearlyEntryUnclamped(item, prev_sales, prev_revenue) ==
    [sales              |-> item.sales - prev_sales,
     revenue            |-> item.revenue - prev_revenue,
     cumulative_sales   |-> item.sales,
     cumulative_revenue |-> item.revenue]

YearlyEntry(item, prev_sales, prev_revenue) ==
    [sales              |-> Max0(item.sales - prev_sales),
     revenue            |-> Max0(item.revenue - prev_revenue),
     cumulative_sales   |-> item.sales,
     cumulative_revenue |-> item.revenue]

\* variant: the baseline stays at 0
RECURSIVE YearlyWalkFromZero(_, _, _, _, _, _)
YearlyWalkFromZero(years, by_year, i, prev_sales, prev_revenue, acc) ==
    IF i > Len(years) THEN acc
    ELSE LET item == by_year[years[i]] IN
         YearlyWalkFromZero(years, by_year, i + 1, prev_sales, prev_revenue,
                            Put(acc, years[i], YearlyEntry(item, prev_sales, prev_revenue)))

\* for yr in years: increments[yr] = {...}; prev_sales = cur_sales; ...
RECURSIVE YearlyWalk(_, _, _, _, _, _)
YearlyWalk(years, by_year, i, prev_sales, prev_revenue, acc) ==
    IF i > Len(years) THEN acc
    ELSE LET item == by_year[years[i]] IN
         YearlyWalk(years, by_year, i + 1, item.sales, item.revenue,
                    Put(acc, years[i], YearlyEntry(item, prev_sales, prev_revenue)))

GetYearlyIncrements(h) ==
    LET by_year == CollectByYear(h, 1, EmptyDict) IN
    YearlyWalk(SortedKeys(DOMAIN by_year), by_year, 1, 0, 0, EmptyDict)

(***************************************************************************)
(* get_history_for_game                                                    *)
(***************************************************************************)
RECURSIVE CollectByPeriod(_, _, _, _)
CollectByPeriod(h, f, i, by_period) ==
    IF i > Len(h) THEN by_period
    ELSE IF NoTimeStamp(h[i].timeStamp) \/ ConversionFails(h[i].timeStamp)
         THEN CollectByPeriod(h, f, i + 1, by_period)
    ELSE CollectByPeriod(h, f, i + 1, Put(by_period, PeriodOf(h[i].timeStamp, f), h[i]))

PeriodEntry(item, prev_sales, prev_revenue) ==
    [sales_inc     |-> Max0(item.sales - prev_sales),
     revenue_inc   |-> Max0(item.revenue - prev_revenue),
     cumul_sales   |-> item.sales,
     cumul_revenue |-> item.revenue]

\* variant: the baseline is advanced by the clamped increment
RECURSIVE PeriodWalkAccumulating(_, _, _, _, _, _)
PeriodWalkAccumulating(periods, by_period, i, prev_sales, prev_revenue, acc) ==
    IF i > Len(periods) THEN acc
    ELSE LET item == by_period[periods[i]]
             e    == PeriodEntry(item, prev_sales, prev_revenue)
         IN PeriodWalkAccumulating(periods, by_period, i + 1,
                                   prev_sales + e.sales_inc, prev_revenue + e.revenue_inc,
                                   Put(acc, periods[i], e))

RECURSIVE PeriodWalk(_, _, _, _, _, _)
PeriodWalk(periods, by_period, i, prev_sales, prev_revenue, acc) ==
    IF i > Len(periods) THEN acc
    ELSE LET item == by_period[periods[i]] IN
         PeriodWalk(periods, by_period, i + 1, item.sales, item.revenue,
                    Put(acc, periods[i], PeriodEntry(item, prev_sales, prev_revenue)))

GetHistoryForGame(h, f) ==
    LET by_period == CollectByPeriod(SortByTimeStamp(h), f, 1, EmptyDict) IN
    PeriodWalk(SortedKeys(DOMAIN by_period), by_period, 1, 0, 0, EmptyDict)

(***************************************************************************)
(* Specification of the period increment calculator: one history, one     *)
(* call.                                                                   *)
(***************************************************************************)
\* the variables of the other components, while they are not in use
IncIdle == history = <<>> /\ increments = EmptyDict

FilterIdle == criteria = EmptyDict /\ filtered = <<>>

RollupIdle == stats = <<>>

TrendIdle == window = EmptyDict /\ trends = EmptyDict

CountryIdle == weight_by = "revenue" /\ countries = <<>>

OverlapIdle == top_n = 0 /\ sort_by = "reach_score" /\ overlaps = <<>> /\ edges = <<>>

ActivityIdle == summary = EmptyDict

\* the collector is not running: no progress file, nothing requested
CollectIdle ==
    /\ appids = <<>>
    /\ progress_file = [state |-> "absent", done |-> {}, failed |-> {}]
    /\ out_files = {} /\ detail_requests = {}
    /\ pc = "idle"
    /\ done_set = {} /\ failed_set = {} /\ remaining = <<>> /\ loop_i = 0
    /\ attempt = 0 /\ requests = 0 /\ status = "none" /\ api_data = "none"

NormIdle ==
    /\ val = [kind |-> "none"]
    /\ normalized = [kind |-> "none"]
    /\ renormalized = [kind |-> "none"]

InitInc ==
    /\ op = "none"
    /\ raised = "none"
    /\ budget = 1
    /\ history \in Histories
    /\ freq = "monthly"
    /\ increments = EmptyDict
    /\ games = <<>>
    /\ FilterIdle /\ RollupIdle /\ TrendIdle /\ CountryIdle
    /\ OverlapIdle /\ ActivityIdle /\ NormIdle
    /\ CollectIdle

CallGetYearlyIncrements ==
    /\ budget > 0
    /\ budget' = budget - 1
    /\ raised' = "none"
    /\ op' = "_get_yearly_increments"
    /\ freq' = "yearly"
    /\ increments' = GetYearlyIncrements(history)
    /\ UNCHANGED <<history, games, filterVars, rollupVars, trendVars, countryVars,
                 overlapVars, activityVars, normVars, collectVars>>

\* variant: the history is sorted in place (history.sort(...))
CallGetHistoryForGameSortingInPlace ==
    /\ budget > 0
    /\ budget' = budget - 1
    /\ \E f \in Freqs :
          /\ freq' = f
          /\ IF SortRaises(history)
             THEN raised' = "TypeError" /\ increments' = increments
             ELSE raised' = "none" /\ increments' = GetHistoryForGame(history, f)
    /\ history' = SortByTimeStamp(history)
    /\ op' = "get_history_for_game"
    /\ UNCHANGED <<games, filterVars, rollupVars, trendVars, countryVars,
                 overlapVars, activityVars, normVars, collectVars>>

CallGetHistoryForGame ==
    /\ budget > 0
    /\ budget' = budget - 1
    /\ \E f \in Freqs :
          /\ freq' = f
          /\ IF SortRaises(history)
             THEN raised' = "TypeError" /\ increments' = increments
             ELSE raised' = "none" /\ increments' = GetHistoryForGame(history, f)
    /\ op' = "get_history_for_game"
    /\ UNCHANGED <<history, games, filterVars, rollupVars, trendVars, countryVars,
                 overlapVars, activityVars, normVars, collectVars>>

NextInc == CallGetYearlyIncrements \/ CallGetHistoryForGame

SpecInc == InitInc /\ [][NextInc]_vars

(***************************************************************************)
(* filter_games                                                            *)
(***************************************************************************)
TicksPerYear == TicksPerMonth * MonthsPerYear

\* a timestamp (in ticks) that falls in the given calendar year
StampIn(year) == (year - 1970) * TicksPerYear + 1

\* the fields of a game record that filter_games reads
GameRecords ==
    [tags             : {<<>>, <<"b">>, <<"c">>},
     genres           : {<<>>, <<"x">>},
     releaseDate      : {0, Unparseable, StampIn(1970), StampIn(1972)},
     firstReleaseDate : {0, StampIn(1971)},
     copiesSold       : 0..1,
     reviews          : 0..1]

\* representative records for the collections of several records
GameCatalogue ==
    {g \in GameRecords :
        /\ g.genres = <<"x">>
        /\ g.releaseDate = StampIn(1972)
        /\ g.firstReleaseDate = 0
        /\ g.reviews = 1}

GameLists ==
    {<<>>} \cup {<<g>> : g \in GameRecords}
           \cup UNION {[1..k -> GameCatalogue] : k \in 2..MaxGames}

\* the arguments the pages pass: a tags/genres selection is None or a non-empty
\* list (an empty selection is turned into None or stops the page), a year
\* bound is None or a calendar year of the slider
FilterCriteria ==
    [tags        : {None, Some(<<"a", "b">>), Some(<<"b">>)},
     genres      : {None, Some(<<"x">>)},
     year_min    : {None, Some(1971)},
     year_max    : {None, Some(1971)},
     sold_min    : {None, Some(1)},
     reviews_min : {None, Some(1)}]

\* Python truth value of an optional list / an optional int
TruthyList(o) == o # None /\ o[1] # <<>>

TruthyInt(o) == o # None /\ o[1] # 0

\* variant: an absent timestamp is converted like any other (the epoch's year)
ReleaseYearOfEpoch(g) ==
    LET ts == IF g.releaseDate # 0 THEN g.releaseDate ELSE g.firstReleaseDate IN
    IF ts # Unparseable THEN Some(YearOf(ts)) ELSE None

\* _release_year: Some(year), or None
ReleaseYear(g) ==
    LET ts == IF g.releaseDate # 0 THEN g.releaseDate ELSE g.firstReleaseDate IN
    IF ts # 0 /\ ts # Unparseable THEN Some(YearOf(ts)) ELSE None

\* any(t in have for t in wanted)
AnyIn(wanted, have) == \E i \in 1..Len(wanted) : wanted[i] \in Elems(have)

\* all(t in have for t in wanted)
AllIn(wanted, have) == \A i \in 1..Len(wanted) : wanted[i] \in Elems(have)

\* variant: a record must carry every wanted tag
KeepsWithAllTags(g, c) ==
    /\ ~(TruthyList(c.tags) /\ ~AllIn(c.tags[1], g.tags))
    /\ ~(TruthyList(c.genres) /\ ~AnyIn(c.genres[1], g.genres))
    /\ ~( /\ (TruthyInt(c.year_min) \/ TruthyInt(c.year_max))
          /\ LET yr == ReleaseYear(g) IN
             \/ yr = None
             \/ (TruthyInt(c.year_min) /\ yr[1] < c.year_min[1])
             \/ (TruthyInt(c.year_max) /\ yr[1] > c.year_max[1]) )
    /\ ~(c.sold_min # None /\ g.copiesSold < c.sold_min[1])
    /\ ~(c.reviews_min # None /\ g.reviews < c.reviews_min[1])

\* the body of the loop of filter_games: TRUE iff no `continue` is taken
Keeps(g, c) ==
    /\ ~(TruthyList(c.tags) /\ ~AnyIn(c.tags[1], g.tags))
    /\ ~(TruthyList(c.genres) /\ ~AnyIn(c.genres[1], g.genres))
    /\ ~( /\ (TruthyInt(c.year_min) \/ TruthyInt(c.year_max))
          /\ LET yr == ReleaseYear(g) IN
             \/ yr = None
             \/ (TruthyInt(c.year_min) /\ yr[1] < c.year_min[1])
             \/ (TruthyInt(c.year_max) /\ yr[1] > c.year_max[1]) )
    /\ ~(c.sold_min # None /\ g.copiesSold < c.sold_min[1])
    /\ ~(c.reviews_min # None /\ g.reviews < c.reviews_min[1])

\* variant: result.insert(0, g)
RECURSIVE FilterLoopPrepending(_, _, _, _)
FilterLoopPrepending(gs, c, i, result) ==
    IF i > Len(gs) THEN result
    ELSE FilterLoopPrepending(gs, c, i + 1,
                              IF Keeps(gs[i], c) THEN <<gs[i]>> \o result ELSE result)

\* for g in games: ... result.append(g)
RECURSIVE FilterLoop(_, _, _, _)
FilterLoop(gs, c, i, result) ==
    IF i > Len(gs) THEN result
    ELSE FilterLoop(gs, c, i + 1, IF Keeps(gs[i], c) THEN Append(result, gs[i]) ELSE result)

FilterGames(gs, c) == FilterLoop(gs, c, 1, <<>>)

(***************************************************************************)
(* Specification of the filter engine: one collection, one call.           *)
(***************************************************************************)
InitFilter ==
    /\ op = "none"
    /\ raised = "none"
    /\ budget = 1
    /\ games \in GameLists
    /\ criteria \in FilterCriteria
    /\ filtered = <<>>
    /\ freq = "monthly"
    /\ IncIdle /\ RollupIdle /\ TrendIdle /\ CountryIdle
    /\ OverlapIdle /\ ActivityIdle /\ NormIdle
    /\ CollectIdle

CallFilterGames ==
    /\ budget > 0
    /\ budget' = budget - 1
    /\ raised' = "none"
    /\ op' = "filter_games"
    /\ filtered' = FilterGames(games, criteria)
    /\ UNCHANGED <<games, freq, criteria, incVars, rollupVars, trendVars, countryVars,
                 overlapVars, activityVars, normVars, collectVars>>

NextFilter == CallFilterGames

SpecFilter == InitFilter /\ [][NextFilter]_vars

(***************************************************************************)
(* get_genre_stats / get_tag_stats                                         *)
(*                                                                         *)
(* The accumulators `stats` are a dict (a function) together with the      *)
(* order in which its keys were first inserted; the value returned is the  *)
(* list of the items of the result dict, in the dict's order.  A quotient  *)
(* a / b is kept exact as [num |-> a, den |-> b]; the integer 0 returned   *)
(* for an empty denominator is [num |-> 0, den |-> 1].                     *)
(***************************************************************************)
Quotient(a, b) == [num |-> a, den |-> b]

Zero == [num |-> 0, den |-> 1]

\* the fields of a game record that the category rollups read; genres and tags
\* are lists without repetition
RollupRecords ==
    {g \in [genres      : {<<>>, <<"x">>, <<"y", "x">>},
            tags        : {<<>>, <<"t">>},
            reviewScore : {0, 80, 90},
            revenue     : 0..1,
            copiesSold  : 0..1] : g.copiesSold = g.revenue}

NoStats == [order |-> <<>>, of |-> EmptyDict]

NewGroup == [revenue_sum |-> 0, sales_sum |-> 0, score_sum |-> 0, count |-> 0, score_count |-> 0]

\* stats[key] of a defaultdict: the key is inserted on first use
Group(st, key) == IF key \in DOMAIN st.of THEN st.of[key] ELSE NewGroup

PutGroup(st, key, grp) ==
    [order |-> IF key \in DOMAIN st.of THEN st.order ELSE Append(st.order, key),
     of    |-> Put(st.of, key, grp)]

\* variant: the score counter is advanced for every record of the group
AddToGenreCountingAll(st, genre, g) ==
    LET old == Group(st, genre) IN
    PutGroup(st, genre,
        [revenue_sum |-> old.revenue_sum + g.revenue,
         sales_sum   |-> old.sales_sum + g.copiesSold,
         count       |-> old.count + 1,
         score_sum   |-> old.score_sum + g.reviewScore,
         score_count |-> old.score_count + 1])

\* the body of `for genre in (g.get("genres") or [])`
AddToGenre(st, genre, g) ==
    LET old == Group(st, genre) IN
    PutGroup(st, genre,
        [revenue_sum |-> old.revenue_sum + g.revenue,
         sales_sum   |-> old.sales_sum + g.copiesSold,
         count       |-> old.count + 1,
         score_sum   |-> IF g.reviewScore > 0 THEN old.score_sum + g.reviewScore
                         ELSE old.score_sum,
         score_count |-> IF g.reviewScore > 0 THEN old.score_count + 1
                         ELSE old.score_count])

\* the body of `for tag in (g.get("tags") or [])`
AddToTag(st, tag, g) ==
    LET old == Group(st, tag) IN
    PutGroup(st, tag,
        [revenue_sum |-> old.revenue_sum + g.revenue,
         sales_sum   |-> old.sales_sum + g.copiesSold,
         count       |-> old.count + 1,
         score_sum   |-> IF g.reviewScore > 0 THEN old.score_sum + g.reviewScore
                         ELSE old.score_sum,
         score_count |-> IF g.reviewScore > 0 THEN old.score_count + 1
                         ELSE old.score_count])

\* for g in games: for genre in g["genres"]: ...   (i, j: positions in the two loops)
RECURSIVE GenreLoop(_, _, _, _)
GenreLoop(gs, i, j, st) ==
    IF i > Len(gs) THEN st
    ELSE IF j > Len(gs[i].genres) THEN GenreLoop(gs, i + 1, 1, st)
    ELSE GenreLoop(gs, i, j + 1, AddToGenre(st, gs[i].genres[j], gs[i]))

RECURSIVE TagLoop(_, _, _, _)
TagLoop(gs, i, j, st) ==
    IF i > Len(gs) THEN st
    ELSE IF j > Len(gs[i].tags) THEN TagLoop(gs, i + 1, 1, st)
    ELSE TagLoop(gs, i, j + 1, AddToTag(st, gs[i].tags[j], gs[i]))

\* sorted(stats.items(), key=..., reverse=True): stable, descending by rank[key]
RECURSIVE InsertDescending(_, _, _)
InsertDescending(s, key, rank) ==
    IF s = <<>> THEN <<key>>
    ELSE IF rank[s[Len(s)]] >= rank[key] THEN Append(s, key)
    ELSE Append(InsertDescending(SubSeq(s, 1, Len(s) - 1), key, rank), s[Len(s)])

RECURSIVE SortDescending(_, _)
SortDescending(keys, rank) ==
    IF keys = <<>> THEN <<>>
    ELSE InsertDescending(SortDescending(SubSeq(keys, 1, Len(keys) - 1), rank),
                          keys[Len(keys)], rank)

\* result[key] = {...}
StatsEntry(key, data) ==
    [key           |-> key,
     game_count    |-> data.count,
     avg_revenue   |-> IF data.count # 0 THEN Quotient(data.revenue_sum, data.count) ELSE Zero,
     avg_sales     |-> IF data.count # 0 THEN Quotient(data.sales_sum, data.count) ELSE Zero,
     avg_score     |-> IF data.score_count # 0
                       THEN Quotient(data.score_sum, data.score_count) ELSE Zero,
     total_revenue |-> data.revenue_sum]

GetGenreStats(gs) ==
    LET st    == GenreLoop(gs, 1, 1, NoStats)
        order == SortDescending(st.order, [k \in DOMAIN st.of |-> st.of[k].revenue_sum])
    IN [n \in 1..Len(order) |-> StatsEntry(order[n], st.of[order[n]])]

GetTagStats(gs) ==
    LET st    == TagLoop(gs, 1, 1, NoStats)
        order == SortDescending(st.order, [k \in DOMAIN st.of |-> st.of[k].count])
    IN [n \in 1..Len(order) |-> StatsEntry(order[n], st.of[order[n]])]

(***************************************************************************)
(* Specification of the category rollups: one collection, one call.        *)
(***************************************************************************)
InitRollup ==
    /\ op = "none"
    /\ raised = "none"
    /\ budget = 1
    /\ \E n \in 0..MaxGames : games \in [1..n -> RollupRecords]
    /\ stats = <<>>
    /\ freq = "monthly"
    /\ IncIdle /\ FilterIdle /\ TrendIdle /\ CountryIdle
    /\ OverlapIdle /\ ActivityIdle /\ NormIdle
    /\ CollectIdle

CallGetGenreStats ==
    /\ budget > 0
    /\ budget' = budget - 1
    /\ raised' = "none"
    /\ op' = "get_genre_stats"
    /\ stats' = GetGenreStats(games)
    /\ UNCHANGED <<games, freq, incVars, filterVars, trendVars, countryVars,
                 overlapVars, activityVars, normVars, collectVars>>

CallGetTagStats ==
    /\ budget > 0
    /\ budget' = budget - 1
    /\ raised' = "none"
    /\ op' = "get_tag_stats"
    /\ stats' = GetTagStats(games)
    /\ UNCHANGED <<games, freq, incVars, filterVars, trendVars, countryVars,
                 overlapVars, activityVars, normVars, collectVars>>

NextRollup == CallGetGenreStats \/ CallGetTagStats

SpecRollup == InitRollup /\ [][NextRollup]_vars

(***************************************************************************)
(* get_yearly_trends                                                       *)
(***************************************************************************)
MaxTrendGames == 2    \* records in one collection of the temporal rollups

\* sample of snapshots: one without a timestamp, then two months of 1970 and
\* one of 1971, each with a cumulative figure of 1 for one metric and 0 for
\* the other
TrendStamps == {0, StampIn(1970), StampIn(1970) + 1, StampIn(1971)}

TrendSnapshots ==
    {s \in [timeStamp : TrendStamps, sales : Cumulatives, revenue : Cumulatives] :
        IF s.timeStamp = 0 THEN s.sales = 1 /\ s.revenue = 1
        ELSE s.sales + s.revenue = 1}

\* the empty history and every history of one or two snapshots, in any order
TrendHistories ==
    {<<>>} \cup {<<s>> : s \in TrendSnapshots}
           \cup {<<s, t>> : s \in TrendSnapshots, t \in TrendSnapshots}

TrendRecords == [history : TrendHistories]

\* the defaultdict entry of a year
NewTotal == [revenue |-> 0, sales |-> 0, game_count |-> 0]

Total(totals, yr) == IF yr \in DOMAIN totals THEN totals[yr] ELSE NewTotal

\* variant: every record with an entry for the year is counted
AddToYearCountingAll(totals, yr, data) ==
    LET old == Total(totals, yr) IN
    Put(totals, yr,
        [revenue    |-> old.revenue + data.revenue,
         sales      |-> old.sales + data.sales,
         game_count |-> old.game_count + 1])

\* the body of `for yr, data in increments.items()`
AddToYear(totals, yr, data) ==
    LET old == Total(totals, yr) IN
    Put(totals, yr,
        [revenue    |-> old.revenue + data.revenue,
         sales      |-> old.sales + data.sales,
         game_count |-> IF data.sales > 0 THEN old.game_count + 1 ELSE old.game_count])

RECURSIVE IncrementsLoop(_, _, _, _)
IncrementsLoop(totals, incs, years, j) ==
    IF j > Len(years) THEN totals
    ELSE IncrementsLoop(AddToYear(totals, years[j], incs[years[j]]), incs, years, j + 1)

\* for game in games: increments = _get_yearly_increments(history); ...
RECURSIVE TrendsLoop(_, _, _)
TrendsLoop(gs, i, totals) ==
    IF i > Len(gs) THEN totals
    ELSE LET incs == GetYearlyIncrements(gs[i].history) IN
         TrendsLoop(gs, i + 1, IncrementsLoop(totals, incs, SortedKeys(DOMAIN incs), 1))

GetYearlyTrends(gs) ==
    LET totals == TrendsLoop(gs, 1, EmptyDict) IN
    [yr \in DOMAIN totals |->
        [revenue    |-> totals[yr].revenue,
         sales      |-> totals[yr].sales,
         game_count |-> totals[yr].game_count]]

(***************************************************************************)
(* get_history_aggregate                                                   *)
(***************************************************************************)
\* year windows: one that holds every sampled year, one that starts after the
\* first sampled year, one that ends before the last
Windows ==
    {[year_min |-> 1970, year_max |-> 1972],
     [year_min |-> 1971, year_max |-> 1972],
     [year_min |-> 1970, year_max |-> 1970]}

\* for item in history: ... if dt.year < year_min or dt.year > year_max: continue
RECURSIVE CollectInWindow(_, _, _, _, _)
CollectInWindow(h, f, w, i, by_period) ==
    IF i > Len(h) THEN by_period
    ELSE IF NoTimeStamp(h[i].timeStamp) \/ ConversionFails(h[i].timeStamp)
         THEN CollectInWindow(h, f, w, i + 1, by_period)
    ELSE IF YearOf(h[i].timeStamp) < w.year_min \/ YearOf(h[i].timeStamp) > w.year_max
         THEN CollectInWindow(h, f, w, i + 1, by_period)
    ELSE CollectInWindow(h, f, w, i + 1, Put(by_period, PeriodOf(h[i].timeStamp, f), h[i]))

\* the defaultdict(list) entries of a period
NewBucket == [sales_inc |-> <<>>, revenue_inc |-> <<>>]

Bucket(buckets, p) == IF p \in DOMAIN buckets THEN buckets[p] ELSE NewBucket

\* for period in sorted(by_period.keys()): period_buckets[period][..].append(..)
RECURSIVE BucketWalk(_, _, _, _, _, _)
BucketWalk(periods, by_period, i, prev_sales, prev_revenue, buckets) ==
    IF i > Len(periods) THEN buckets
    ELSE LET item == by_period[periods[i]]
             old  == Bucket(buckets, periods[i])
         IN BucketWalk(periods, by_period, i + 1, item.sales, item.revenue,
               Put(buckets, periods[i],
                   [sales_inc   |-> Append(old.sales_inc, Max0(item.sales - prev_sales)),
                    revenue_inc |-> Append(old.revenue_inc,
                                           Max0(item.revenue - prev_revenue))]))

\* the body of `for game in games`
AggregateGame(buckets, g, f, w) ==
    LET h == SortByTimeStamp(g.history) IN
    IF h = <<>> THEN buckets
    ELSE LET by_period == CollectInWindow(h, f, w, 1, EmptyDict) IN
         BucketWalk(SortedKeys(DOMAIN by_period), by_period, 1, 0, 0, buckets)

RECURSIVE AggregateLoop(_, _, _, _, _)
AggregateLoop(gs, i, f, w, buckets) ==
    IF i > Len(gs) THEN buckets
    ELSE AggregateLoop(gs, i + 1, f, w, AggregateGame(buckets, gs[i], f, w))

RECURSIVE SumSeq(_)
SumSeq(s) == IF s = <<>> THEN 0 ELSE s[1] + SumSeq(Tail(s))        \* sum(lst)

GetHistoryAggregate(gs, f, w) ==
    LET buckets == AggregateLoop(gs, 1, f, w, EmptyDict) IN
    [p \in DOMAIN buckets |->
        [sales_inc   |-> SumSeq(buckets[p].sales_inc),
         revenue_inc |-> SumSeq(buckets[p].revenue_inc),
         total_games |-> Len(buckets[p].sales_inc)]]

(***************************************************************************)
(* Specification of the temporal rollups: one collection of records with   *)
(* their histories, one call.                                              *)
(***************************************************************************)
InitTrend ==
    /\ op = "none"
    /\ raised = "none"
    /\ budget = 1
    /\ \E n \in 0..MaxTrendGames : games \in [1..n -> TrendRecords]
    /\ freq = "yearly"
    /\ window = EmptyDict
    /\ trends = EmptyDict
    /\ IncIdle /\ FilterIdle /\ RollupIdle /\ CountryIdle
    /\ OverlapIdle /\ ActivityIdle /\ NormIdle
    /\ CollectIdle

CallGetYearlyTrends ==
    /\ budget > 0
    /\ budget' = budget - 1
    /\ raised' = "none"
    /\ op' = "get_yearly_trends"
    /\ trends' = GetYearlyTrends(games)
    /\ UNCHANGED <<games, freq, window, incVars, filterVars, rollupVars, countryVars,
                 overlapVars, activityVars, normVars, collectVars>>

CallGetHistoryAggregate ==
    /\ budget > 0
    /\ budget' = budget - 1
    /\ \E f \in Freqs, w \in Windows :
          /\ freq' = f
          /\ window' = w
          /\ IF \E i \in 1..Len(games) : SortRaises(games[i].history)
             THEN raised' = "TypeError" /\ trends' = trends
             ELSE raised' = "none" /\ trends' = GetHistoryAggregate(games, f, w)
    /\ op' = "get_history_aggregate"
    /\ UNCHANGED <<games, incVars, filterVars, rollupVars, countryVars,
                 overlapVars, activityVars, normVars, collectVars>>

NextTrend == CallGetYearlyTrends \/ CallGetHistoryAggregate

SpecTrend == InitTrend /\ [][NextTrend]_vars

(***************************************************************************)
(* get_country_aggregate                                                   *)
(*                                                                         *)
(* A countryData value is [is_dict, items]: whether the field holds a dict *)
(* and its items, a list of <<code, pct>> pairs with distinct codes in the *)
(* dict's order (an absent, null or empty field has no items).  Shares are *)
(* whole percents; a returned percentage is a number of hundredths, so     *)
(* that round(x, 2) is a rounding to an integer.  The value returned is    *)
(* the list of the items of the result dict, in the dict's order.          *)
(***************************************************************************)
MaxCountryGames == 2  \* records in one collection of the country rollup

TopCountries == 30    \* list(result.items())[:30]

\* COUNTRY_NAMES, as <<code, name>> pairs (the names stand for the Korean ones)
CountryNamePairs ==
    << <<"us", "United States">>, <<"cn", "China">>, <<"ru", "Russia">>,
       <<"de", "Germany">>, <<"gb", "United Kingdom">>, <<"fr", "France">>,
       <<"br", "Brazil">>, <<"kr", "Korea">>, <<"jp", "Japan">>, <<"ca", "Canada">>,
       <<"au", "Australia">>, <<"pl", "Poland">>, <<"tr", "Turkiye">>,
       <<"ua", "Ukraine">>, <<"nl", "Netherlands">>, <<"se", "Sweden">>,
       <<"mx", "Mexico">>, <<"ar", "Argentina">>, <<"it", "Italy">>,
       <<"es", "Spain">>, <<"in", "India">>, <<"vn", "Vietnam">>,
       <<"th", "Thailand">>, <<"id", "Indonesia">>, <<"sg", "Singapore">> >>

COUNTRY_NAMES ==
    [code \in {p[1] : p \in Elems(CountryNamePairs)} |->
        (CHOOSE p \in Elems(CountryNamePairs) : p[1] = code)[2]]

\* code.upper() on the sampled codes: the codes of COUNTRY_NAMES and seven
\* codes it does not name
UpperPairs ==
    << <<"us", "US">>, <<"cn", "CN">>, <<"ru", "RU">>, <<"de", "DE">>, <<"gb", "GB">>,
       <<"fr", "FR">>, <<"br", "BR">>, <<"kr", "KR">>, <<"jp", "JP">>, <<"ca", "CA">>,
       <<"au", "AU">>, <<"pl", "PL">>, <<"tr", "TR">>, <<"ua", "UA">>, <<"nl", "NL">>,
       <<"se", "SE">>, <<"mx", "MX">>, <<"ar", "AR">>, <<"it", "IT">>, <<"es", "ES">>,
       <<"in", "IN">>, <<"vn", "VN">>, <<"th", "TH">>, <<"id", "ID">>, <<"sg", "SG">>,
       <<"at", "AT">>, <<"be", "BE">>, <<"ch", "CH">>, <<"dk", "DK">>, <<"fi", "FI">>,
       <<"no", "NO">>, <<"pt", "PT">> >>

UpperOf ==
    [code \in {p[1] : p \in Elems(UpperPairs)} |->
        (CHOOSE p \in Elems(UpperPairs) : p[1] = code)[2]]

Upper(code) == UpperOf[code]

\* f"{COUNTRY_NAMES.get(code, code.upper())} ({code.upper()})"
Label(code) ==
    [name  |-> IF code \in DOMAIN COUNTRY_NAMES THEN COUNTRY_NAMES[code] ELSE Upper(code),
     upper |-> Upper(code)]

\* a countryData dict over every sampled code, with the given share per position
WideData(share) ==
    [is_dict |-> TRUE,
     items   |-> [k \in 1..Len(UpperPairs) |-> <<UpperPairs[k][1], share[k]>>]]

ScatteredShare == [k \in 1..Len(UpperPairs) |-> ((k * 7) % Len(UpperPairs)) + 1]  \* all different

TiedShare == [k \in 1..Len(UpperPairs) |-> (k % 3) + 1]                          \* many equal

CountryDatas ==
    {[is_dict |-> TRUE,  items |-> <<>>],                             \* absent or {}
     [is_dict |-> FALSE, items |-> << <<"us", 50>> >>],              \* not a dict
     [is_dict |-> TRUE,  items |-> << <<"us", 50>> >>],
     [is_dict |-> TRUE,  items |-> << <<"us", 70>>, <<"kr", 30>> >>],
     [is_dict |-> TRUE,  items |-> << <<"kr", 20>>, <<"at", 10>> >>],
     WideData(ScatteredShare),
     WideData(TiedShare)}

\* the fields of a game record that get_country_aggregate reads; each metric is
\* absent (0) in one of the three combinations
CountryRecords ==
    {g \in [countryData : CountryDatas, revenue : {0, 100, 300}, copiesSold : {0, 2}] :
        \/ g.revenue = 0 /\ g.copiesSold = 2
        \/ g.revenue = 100 /\ g.copiesSold = 0
        \/ g.revenue = 300 /\ g.copiesSold = 2}

WeightBys == {"revenue", "sales", "equal"}

\* w = g.get("revenue") or 1 / g.get("copiesSold") or 1 / 1.0
Weight(g, by) ==
    IF by = "revenue" THEN (IF g.revenue # 0 THEN g.revenue ELSE 1)
    ELSE IF by = "sales" THEN (IF g.copiesSold # 0 THEN g.copiesSold ELSE 1)
    ELSE 1

NoWeights == [order |-> <<>>, of |-> EmptyDict, total_weight |-> 0]

\* weighted[code] += pct * w, for a code that weighted already holds
AddShare(acc, code, pct, w) ==
    [acc EXCEPT !.of = Put(acc.of, code, acc.of[code] + pct * w)]

\* weighted[code] += pct * w, for a new code: the defaultdict(float) inserts it
\* with 0.0 first
InsertShare(acc, code, pct, w) ==
    [acc EXCEPT !.order = Append(acc.order, code),
                !.of    = Put(acc.of, code, 0 + pct * w)]

\* for code, pct in cd.items(): ...
RECURSIVE ShareLoop(_, _, _, _)
ShareLoop(items, j, w, acc) ==
    IF j > Len(items) THEN acc
    ELSE IF items[j][1] \in DOMAIN acc.of
         THEN ShareLoop(items, j + 1, w, AddShare(acc, items[j][1], items[j][2], w))
         ELSE ShareLoop(items, j + 1, w, InsertShare(acc, items[j][1], items[j][2], w))

\* variant: a record without country data still adds its weight
RECURSIVE CountryLoopWeighingAll(_, _, _, _)
CountryLoopWeighingAll(gs, i, by, acc) ==
    IF i > Len(gs) THEN acc
    ELSE LET cd == gs[i].countryData
             w  == Weight(gs[i], by)
         IN IF ~cd.is_dict \/ cd.items = <<>>
            THEN CountryLoopWeighingAll(gs, i + 1, by,
                    [acc EXCEPT !.total_weight = acc.total_weight + w])
            ELSE CountryLoopWeighingAll(gs, i + 1, by,
                    ShareLoop(cd.items, 1, w,
                              [acc EXCEPT !.total_weight = acc.total_weight + w]))

\* for g in games: ... total_weight += w; for code, pct in cd.items(): ...
RECURSIVE CountryLoop(_, _, _, _)
CountryLoop(gs, i, by, acc) ==
    IF i > Len(gs) THEN acc
    ELSE LET cd == gs[i].countryData
             w  == Weight(gs[i], by)
         IN IF ~cd.is_dict \/ cd.items = <<>>
            THEN CountryLoop(gs, i + 1, by, acc)
            ELSE CountryLoop(gs, i + 1, by,
                    ShareLoop(cd.items, 1, w,
                              [acc EXCEPT !.total_weight = acc.total_weight + w]))

\* round(num / den, 2) in hundredths: the nearest integer to 100 * num / den,
\* the even one of the two on a tie
Round2(num, den) ==
    LET q == (100 * num) \div den
        r == (100 * num) % den
    IN IF 2 * r < den THEN q
       ELSE IF 2 * r > den THEN q + 1
       ELSE IF q % 2 = 0 THEN q ELSE q + 1

RECURSIVE Reversed(_)
Reversed(s) == IF s = <<>> THEN <<>> ELSE Append(Reversed(Tail(s)), Head(s))

\* variant: the sort is ascending
SortCountriesAscending(order, weighted) == Reversed(SortDescending(order, weighted))

\* sorted(weighted.items(), key=lambda x: x[1], reverse=True)
SortCountries(order, weighted) == SortDescending(order, weighted)

GetCountryAggregate(gs, by) ==
    LET acc   == CountryLoop(gs, 1, by, NoWeights)
        order == SortCountries(acc.order, acc.of)
        n     == IF Len(order) < TopCountries THEN Len(order) ELSE TopCountries
    IN IF acc.total_weight = 0 THEN <<>>
       ELSE [k \in 1..n |->
                [key |-> Label(order[k]),
                 pct |-> Round2(acc.of[order[k]], acc.total_weight)]]

(***************************************************************************)
(* Specification of the country rollup: one collection, one call.          *)
(***************************************************************************)
InitCountry ==
    /\ op = "none"
    /\ raised = "none"
    /\ budget = 1
    /\ \E n \in 0..MaxCountryGames : games \in [1..n -> CountryRecords]
    /\ freq = "monthly"
    /\ weight_by = "revenue"
    /\ countries = <<>>
    /\ IncIdle /\ FilterIdle /\ RollupIdle /\ TrendIdle
    /\ OverlapIdle /\ ActivityIdle /\ NormIdle
    /\ CollectIdle

CallGetCountryAggregate ==
    /\ budget > 0
    /\ budget' = budget - 1
    /\ raised' = "none"
    /\ \E by \in WeightBys :
          /\ weight_by' = by
          /\ countries' = GetCountryAggregate(games, by)
    /\ op' = "get_country_aggregate"
    /\ UNCHANGED <<games, freq, incVars, filterVars, rollupVars, trendVars,
                 overlapVars, activityVars, normVars, collectVars>>

NextCountry == CallGetCountryAggregate

SpecCountry == InitCountry /\ [][NextCountry]_vars

(***************************************************************************)
(* get_activity_summary: per metric, statistics over the positive values.  *)
(* A field that is absent, None or 0 reads as 0 (g.get(field) or 0).       *)
(***************************************************************************)
MaxSummaryGames == 3  \* records in the collection that is summarised

\* output key and record field of every metric, in the order of the result
Metrics ==
    << <<"players_ccu", "players">>,     <<"reviews", "reviews">>,
       <<"review_score", "reviewScore">>, <<"avg_playtime", "avgPlaytime">>,
       <<"followers", "followers">>,     <<"wishlists", "wishlists">>,
       <<"owners", "owners">>,           <<"steam_percent", "steamPercent">>,
       <<"price", "price">>,             <<"copies_sold", "copiesSold">>,
       <<"revenue", "revenue">> >>

MetricKeys == {Metrics[i][1] : i \in 1..Len(Metrics)}

FieldOf(key) == (CHOOSE i \in 1..Len(Metrics) : Metrics[i][1] = key)

\* the records vary in two of the metric fields; every other field is absent
ActivityRecords ==
    [players : {0 - 1, 0, 1, 3}, reviews : {0}, reviewScore : {0}, avgPlaytime : {0},
     followers : {0}, wishlists : {0}, owners : {0}, steamPercent : {0},
     price : {0, 2}, copiesSold : {0}, revenue : {0}]

\* g.get(field) or 0
FieldValue(g, field) ==
    CASE field = "players"      -> g.players
      [] field = "reviews"      -> g.reviews
      [] field = "reviewScore"  -> g.reviewScore
      [] field = "avgPlaytime"  -> g.avgPlaytime
      [] field = "followers"    -> g.followers
      [] field = "wishlists"    -> g.wishlists
      [] field = "owners"       -> g.owners
      [] field = "steamPercent" -> g.steamPercent
      [] field = "price"        -> g.price
      [] field = "copiesSold"   -> g.copiesSold
      [] field = "revenue"      -> g.revenue

\* v and v > 0
Positive(v) == v # 0 /\ v > 0

\* [v for v in vals if v and v > 0]
PositiveVals(vals) == SelectSeq(vals, Positive)

RECURSIVE InsertAscending(_, _)
InsertAscending(s, v) ==
    IF s = <<>> THEN <<v>>
    ELSE IF s[Len(s)] <= v THEN Append(s, v)
    ELSE Append(InsertAscending(SubSeq(s, 1, Len(s) - 1), v), s[Len(s)])

RECURSIVE SortedVals(_)
SortedVals(s) ==                                                  \* sorted(vals)
    IF s = <<>> THEN <<>>
    ELSE InsertAscending(SortedVals(SubSeq(s, 1, Len(s) - 1)), s[Len(s)])

\* {"avg": 0, "max": 0, "median": 0, "total": 0}
ZeroStruct == [avg |-> Zero, max |-> 0, median |-> 0, total |-> 0]

\* _stats(vals); the median is the element at index len // 2 of the sorted list
Stats(vals) ==
    LET pos == PositiveVals(vals)
        vals_sorted == SortedVals(pos)
    IN  IF pos = <<>> THEN ZeroStruct
        ELSE [avg    |-> Quotient(SumSeq(pos), Len(pos)),
              max    |-> vals_sorted[Len(vals_sorted)],
              median |-> vals_sorted[(Len(vals_sorted) \div 2) + 1],
              total  |-> SumSeq(pos),
              count  |-> Len(pos)]

\* [g.get(field) or 0 for g in games]
Column(gs, field) == [i \in 1..Len(gs) |-> FieldValue(gs[i], field)]

GetActivitySummary(gs) ==
    IF gs = <<>> THEN EmptyDict
    ELSE [key \in MetricKeys |-> Stats(Column(gs, Metrics[FieldOf(key)][2]))]

InitActivity ==
    /\ op = "none"
    /\ raised = "none"
    /\ budget = 1
    /\ \E n \in 0..MaxSummaryGames : games \in [1..n -> ActivityRecords]
    /\ freq = "monthly"
    /\ summary = EmptyDict
    /\ IncIdle /\ FilterIdle /\ RollupIdle /\ TrendIdle /\ CountryIdle
    /\ OverlapIdle /\ NormIdle
    /\ CollectIdle

CallGetActivitySummary ==
    /\ budget > 0
    /\ budget' = budget - 1
    /\ raised' = "none"
    /\ op' = "get_activity_summary"
    /\ summary' = GetActivitySummary(games)
    /\ UNCHANGED <<games, freq, incVars, filterVars, rollupVars, trendVars, countryVars,
                 overlapVars, normVars, collectVars>>

NextActivity == CallGetActivitySummary

SpecActivity == InitActivity /\ [][NextActivity]_vars

(***************************************************************************)
(* Audience overlap: get_audience_overlap_top and                          *)
(* get_audience_overlap_network.  A link is written in hundredths (0.05 is *)
(* 5), avg_link in thousandths, overlap_pct in tenths of a percent and     *)
(* reach_score as an exact quotient in hundredths of a copy.  The name,    *)
(* genres, revenue and ccu of an edge are carried through like copiesSold  *)
(* and are left out.                                                       *)
(***************************************************************************)
MaxOverlapGames == 2  \* records in the collection whose overlaps are ranked

TopLinkFloor == 5         \* if link > 0.05

NetworkLinkFloor == 10    \* if link < 0.1: continue

Edge(sid, link, copies) == [steamId |-> sid, link |-> link, copiesSold |-> copies]

\* what one record can list for one target: nothing, one edge or two edges
EdgeChoices(sid) ==
    CASE sid = "A" -> {<<>>, <<Edge("A", 20, 1)>>, <<Edge("A", 20, 1), Edge("A", 40, 2)>>}
      [] sid = "B" -> {<<>>, <<Edge("B", 10, 1)>>, <<Edge("B", 5, 3)>>}
      [] sid = "C" -> {<<>>, <<Edge("C", 10, 1)>>, <<Edge("C", 40, 0), Edge("C", 5, 3)>>}

\* g.get("audienceOverlap") or []
OverlapLists == {a \o b \o c : a \in EdgeChoices("A"), b \in EdgeChoices("B"),
                               c \in EdgeChoices("C")}

TopNs == {1, 2}

\* the four keys of sort_keys and one that is not a key
SortBys == {"reach_score", "avg_link", "overlap_game_count", "copies_sold", "name"}

\* round(num / den) to the nearest integer, halves to the even one
RoundHalfEven(num, den) ==
    LET q == num \div den
        r == num % den
    IN IF 2 * r < den THEN q
       ELSE IF 2 * r > den THEN q + 1
       ELSE IF q % 2 = 0 THEN q ELSE q + 1

Take(s, n) == SubSeq(s, 1, IF n < Len(s) THEN n ELSE Len(s))                 \* s[:n]

\* for g in games: for ao in (g.get("audienceOverlap") or [])
RECURSIVE Flatten(_)
Flatten(gs) ==
    IF gs = <<>> THEN <<>> ELSE gs[1].audienceOverlap \o Flatten(Tail(gs))

\* link = ao.get("link") or 0; if link > 0.05
Kept(ao) == ao.link > TopLinkFloor

\* the edges appended to overlap_data, in the order of the two loops
OverlapData(gs) == SelectSeq(Flatten(gs), Kept)

\* overlap_data[sid]
ItemsOf(kept, sid) == SelectSeq(kept, LAMBDA ao : ao.steamId = sid)

\* overlap_count[sid]: advanced by one for every kept edge
OverlapCount(kept, sid) == Len(ItemsOf(kept, sid))

\* the keys of overlap_count in insertion order
RECURSIVE FirstSeen(_, _)
FirstSeen(kept, order) ==
    IF kept = <<>> THEN order
    ELSE FirstSeen(Tail(kept),
                   IF kept[1].steamId \in Elems(order) THEN order
                   ELSE Append(order, kept[1].steamId))

\* overlap_count.most_common(n): by count, descending, ties in insertion order
MostCommon(kept, n) ==
    LET order == FirstSeen(kept, <<>>)
        rank == [sid \in Elems(order) |-> OverlapCount(kept, sid)]
    IN  Take(SortDescending(order, rank), n)

RECURSIVE SumLinks(_)
SumLinks(items) == IF items = <<>> THEN 0 ELSE items[1].link + SumLinks(Tail(items))

\* max((x["copiesSold"] for x in items), default=0)
MaxCopies(items) ==
    IF items = <<>> THEN 0
    ELSE CHOOSE c \in {items[i].copiesSold : i \in 1..Len(items)} :
             \A i \in 1..Len(items) : items[i].copiesSold <= c

\* variant: the sales figure of the first edge is used
ReachScoreOfFirst(items) == Quotient(SumLinks(items) * items[1].copiesSold, Len(items))

\* reach_score = avg_link * copies_sold, with avg_link = sum(link) / len(items)
ReachScore(items) == Quotient(SumLinks(items) * MaxCopies(items), Len(items))

\* one element of result
OverlapEntry(kept, sid, total_games) ==
    LET items == ItemsOf(kept, sid)
        cnt == OverlapCount(kept, sid)
    IN  [steamId            |-> sid,
         overlap_game_count |-> cnt,
         overlap_pct        |-> IF total_games > 0
                                THEN RoundHalfEven(1000 * cnt, total_games) ELSE 0,
         avg_link           |-> RoundHalfEven(10 * SumLinks(items), Len(items)),
         copies_sold        |-> MaxCopies(items),
         reach_score        |-> ReachScore(items)]

\* key_fn = sort_keys.get(sort_by, sort_keys["reach_score"]), as a quotient
SortKey(x, by) ==
    CASE by = "avg_link"           -> Quotient(x.avg_link, 1)
      [] by = "overlap_game_count" -> Quotient(x.overlap_game_count, 1)
      [] by = "copies_sold"        -> Quotient(x.copies_sold, 1)
      [] OTHER                     -> x.reach_score

AtLeast(a, b) == a.num * b.den >= b.num * a.den

\* sorted(result, key=key_fn, reverse=True): stable
RECURSIVE InsertByKey(_, _, _)
InsertByKey(s, x, by) ==
    IF s = <<>> THEN <<x>>
    ELSE IF AtLeast(SortKey(s[Len(s)], by), SortKey(x, by)) THEN Append(s, x)
    ELSE Append(InsertByKey(SubSeq(s, 1, Len(s) - 1), x, by), s[Len(s)])

RECURSIVE SortByKey(_, _)
SortByKey(result, by) ==
    IF result = <<>> THEN <<>>
    ELSE InsertByKey(SortByKey(SubSeq(result, 1, Len(result) - 1), by),
                     result[Len(result)], by)

\* overlap_count.most_common(top_n * 2)
Candidates(kept, n) == MostCommon(kept, n * 2)

GetAudienceOverlapTop(gs, n, by) ==
    LET kept == OverlapData(gs)
        cands == Candidates(kept, n)
        result == [k \in 1..Len(cands) |-> OverlapEntry(kept, cands[k], Len(gs))]
    IN  Take(SortByKey(result, by), n)

\* the (record, edge) pairs in the order of the two loops
RECURSIVE NetworkPairs(_)
NetworkPairs(gs) ==
    IF gs = <<>> THEN <<>>
    ELSE [k \in 1..Len(gs[1].audienceOverlap) |->
             [src_id |-> gs[1].steamId, overlap |-> gs[1].audienceOverlap[k]]]
         \o NetworkPairs(Tail(gs))

\* the body of the inner loop; a source id is a number and a target id a
\* name, so that sorted([src_id, tgt_id]) is the pair in this order
RECURSIVE NetworkLoop(_, _, _)
NetworkLoop(pairs, seen, out) ==
    IF pairs = <<>> THEN out
    ELSE LET p == pairs[1]
             key == <<p.src_id, p.overlap.steamId>>
         IN  IF p.overlap.link < NetworkLinkFloor
                 THEN NetworkLoop(Tail(pairs), seen, out)
             ELSE IF key \in seen
                 THEN NetworkLoop(Tail(pairs), seen, out)
             ELSE NetworkLoop(Tail(pairs), seen \cup {key},
                              Append(out, [source_id |-> p.src_id,
                                           target_id |-> p.overlap.steamId,
                                           link      |-> p.overlap.link]))

GetAudienceOverlapNetwork(gs) == NetworkLoop(NetworkPairs(gs), {}, <<>>)

InitOverlap ==
    /\ op = "none"
    /\ raised = "none"
    /\ budget = 1
    /\ \E n \in 0..MaxOverlapGames : \E lists \in [1..n -> OverlapLists] :
          games = [i \in 1..n |-> [steamId |-> i, audienceOverlap |-> lists[i]]]
    /\ freq = "monthly"
    /\ top_n = 0
    /\ sort_by = "reach_score"
    /\ overlaps = <<>>
    /\ edges = <<>>
    /\ IncIdle /\ FilterIdle /\ RollupIdle /\ TrendIdle /\ CountryIdle
    /\ ActivityIdle /\ NormIdle
    /\ CollectIdle

CallGetAudienceOverlapTop ==
    /\ budget > 0
    /\ budget' = budget - 1
    /\ raised' = "none"
    /\ \E n \in TopNs, by \in SortBys :
          /\ top_n' = n
          /\ sort_by' = by
          /\ overlaps' = GetAudienceOverlapTop(games, n, by)
    /\ op' = "get_audience_overlap_top"
    /\ UNCHANGED <<games, freq, edges, incVars, filterVars, rollupVars, trendVars,
                 countryVars, activityVars, normVars, collectVars>>

CallGetAudienceOverlapNetwork ==
    /\ budget > 0
    /\ budget' = budget - 1
    /\ raised' = "none"
    /\ op' = "get_audience_overlap_network"
    /\ edges' = GetAudienceOverlapNetwork(games)
    /\ UNCHANGED <<games, freq, top_n, sort_by, overlaps, incVars, filterVars, rollupVars,
                 trendVars, countryVars, activityVars, normVars, collectVars>>

NextOverlap == CallGetAudienceOverlapTop \/ CallGetAudienceOverlapNetwork

SpecOverlap == InitOverlap /\ [][NextOverlap]_vars

(***************************************************************************)
(* Specification of the temporal functions on one record whose history     *)
(* mixes dated snapshots with snapshots whose timestamp is missing, None   *)
(* or not convertible; the collection holds that record alone or next to a *)
(* record with one dated snapshot.                                         *)
(***************************************************************************)
MaxMixed == 3         \* snapshots in the mixed history

MixedStamps == {Null, 0, Unparseable, StampIn(1970), StampIn(1971)}

MixedSnapshots ==
    {s \in [timeStamp : MixedStamps, sales : Cumulatives, revenue : Cumulatives] :
        s.revenue = s.sales}

Companion == [history |-> <<[timeStamp |-> StampIn(1970), sales |-> 1, revenue |-> 1]>>]

InitMixed ==
    /\ op = "none"
    /\ raised = "none"
    /\ budget = 1
    /\ \E n \in 0..MaxMixed : history \in [1..n -> MixedSnapshots]
    /\ games \in {<<[history |-> history]>>,
                  <<Companion, [history |-> history]>>,
                  <<[history |-> history], Companion>>}
    /\ freq = "monthly"
    /\ increments = EmptyDict
    /\ window = EmptyDict
    /\ trends = EmptyDict
    /\ FilterIdle /\ RollupIdle /\ CountryIdle
    /\ OverlapIdle /\ ActivityIdle /\ NormIdle
    /\ CollectIdle

NextMixed ==
    \/ CallGetYearlyIncrements
    \/ CallGetHistoryForGame
    \/ CallGetYearlyTrends
    \/ CallGetHistoryAggregate

SpecMixed == InitMixed /\ [][NextMixed]_vars

(***************************************************************************)
(* _parse_parquet_value.  A value is None, a NaN float, a number, a        *)
(* string, a list or a dict.  A string is a sequence of characters, where  *)
(* the character 1 stands for a JSON number and k for a quoted JSON        *)
(* string; json.loads is a recursive-descent parser over them.             *)
(***************************************************************************)
MaxChars == 5         \* characters of a string cell

NoneValue == [kind |-> "none"]

NaN == [kind |-> "nan"]

Num == [kind |-> "num"]

Str(chars) == [kind |-> "str", chars |-> chars]

List(items) == [kind |-> "list", items |-> items]

Dict(of) == [kind |-> "dict", of |-> of]

Chars == {"[", "]", "{", "}", ",", ":", "1", "k"}

\* the result of a parsing step: the value read and the position after it
Parsed(next, value) == [ok |-> TRUE, next |-> next, value |-> value]

Failed == [ok |-> FALSE, next |-> 0, value |-> NoneValue]

RECURSIVE ParseValue(_, _), ParseItems(_, _, _), ParsePairs(_, _, _)
ParseValue(s, i) ==
    IF i > Len(s) THEN Failed
    ELSE CASE s[i] = "1" -> Parsed(i + 1, Num)
           [] s[i] = "k" -> Parsed(i + 1, Str(<<"k">>))
           [] s[i] = "[" -> IF i + 1 <= Len(s) /\ s[i + 1] = "]"
                            THEN Parsed(i + 2, List(<<>>))
                            ELSE ParseItems(s, i + 1, <<>>)
           [] s[i] = "{" -> IF i + 1 <= Len(s) /\ s[i + 1] = "}"
                            THEN Parsed(i + 2, Dict(EmptyDict))
                            ELSE ParsePairs(s, i + 1, EmptyDict)
           [] OTHER      -> Failed

\* the items of a list, from position i, after the items acc
ParseItems(s, i, acc) ==
    LET r == ParseValue(s, i) IN
    IF ~r.ok \/ r.next > Len(s) THEN Failed
    ELSE IF s[r.next] = "," THEN ParseItems(s, r.next + 1, Append(acc, r.value))
    ELSE IF s[r.next] = "]" THEN Parsed(r.next + 1, List(Append(acc, r.value)))
    ELSE Failed

\* the pairs of a dict, from position i, after the pairs acc; a repeated key
\* keeps the last value
ParsePairs(s, i, acc) ==
    IF i + 1 > Len(s) \/ s[i] # "k" \/ s[i + 1] # ":" THEN Failed
    ELSE LET r == ParseValue(s, i + 2) IN
         IF ~r.ok \/ r.next > Len(s) THEN Failed
         ELSE IF s[r.next] = "," THEN ParsePairs(s, r.next + 1, Put(acc, "k", r.value))
         ELSE IF s[r.next] = "}" THEN Parsed(r.next + 1, Dict(Put(acc, "k", r.value)))
         ELSE Failed

\* json.loads(val): Some(parsed), or None when it raises
JsonLoads(s) ==
    LET r == ParseValue(s, 1) IN
    IF r.ok /\ r.next = Len(s) + 1 THEN Some(r.value) ELSE None

\* variant: a string that does not parse becomes None
ParseParquetValueDroppingFailures(v) ==
    IF v.kind = "nan" THEN NoneValue
    ELSE IF v.kind = "none" THEN NoneValue
    ELSE IF v.kind = "str" /\ v.chars # <<>> /\ v.chars[1] \in {"[", "{"}
         THEN LET parsed == JsonLoads(v.chars) IN
              IF parsed # None /\ parsed[1].kind \in {"list", "dict"} THEN parsed[1]
              ELSE NoneValue
    ELSE v

ParseParquetValue(v) ==
    IF v.kind = "nan" THEN NoneValue
    ELSE IF v.kind = "none" THEN NoneValue
    ELSE IF v.kind = "str" /\ v.chars # <<>> /\ v.chars[1] \in {"[", "{"}
         THEN LET parsed == JsonLoads(v.chars) IN
              IF parsed # None /\ parsed[1].kind \in {"list", "dict"} THEN parsed[1]
              ELSE v
    ELSE v

\* the cells of a row: None, NaN, a number, a list, a dict, or a string
InitNorm ==
    /\ op = "none"
    /\ raised = "none"
    /\ budget = 2
    /\ \/ val \in {NoneValue, NaN, Num, List(<<Num>>), Dict(EmptyDict)}
       \/ \E n \in 0..MaxChars : \E chars \in [1..n -> Chars] : val = Str(chars)
    /\ normalized = NoneValue
    /\ renormalized = NoneValue
    /\ games = <<>>
    /\ freq = "monthly"
    /\ IncIdle /\ FilterIdle /\ RollupIdle /\ TrendIdle /\ CountryIdle
    /\ OverlapIdle /\ ActivityIdle
    /\ CollectIdle

CallParseParquetValue ==
    /\ budget > 0
    /\ op = "none"
    /\ budget' = budget - 1
    /\ raised' = "none"
    /\ op' = "_parse_parquet_value"
    /\ normalized' = ParseParquetValue(val)
    /\ UNCHANGED <<val, renormalized, games, freq, incVars, filterVars, rollupVars,
                 trendVars, countryVars, overlapVars, activityVars, collectVars>>

\* the value that was returned is normalized once more
CallParseParquetValueAgain ==
    /\ budget > 0
    /\ op = "_parse_parquet_value"
    /\ budget' = budget - 1
    /\ raised' = "none"
    /\ op' = "_parse_parquet_value again"
    /\ renormalized' = ParseParquetValue(normalized)
    /\ UNCHANGED <<val, normalized, games, freq, incVars, filterVars, rollupVars,
                 trendVars, countryVars, overlapVars, activityVars, collectVars>>

NextNorm == CallParseParquetValue \/ CallParseParquetValueAgain

SpecNorm == InitNorm /\ [][NextNorm]_vars

(***************************************************************************)
(* Specification of a caller that makes several calls, of any of the       *)
(* operations, on one collection of complete records.                      *)
(***************************************************************************)
MaxCalls == 2         \* calls the caller makes

\* two complete records; the history of the first is not in time order
FirstRecord ==
    [steamId |-> 1, tags |-> <<"b">>, genres |-> <<"x">>,
     releaseDate |-> StampIn(1970), firstReleaseDate |-> 0,
     copiesSold |-> 1, revenue |-> 1, reviews |-> 1, reviewScore |-> 80,
     players |-> 3, avgPlaytime |-> 0, followers |-> 0, wishlists |-> 0, owners |-> 0,
     steamPercent |-> 0, price |-> 2,
     history |-> <<[timeStamp |-> StampIn(1970) + TicksPerMonth, sales |-> 1, revenue |-> 1],
                   [timeStamp |-> StampIn(1970), sales |-> 0, revenue |-> 1]>>,
     countryData |-> [is_dict |-> TRUE, items |-> << <<"us", 70>>, <<"kr", 30>> >>],
     audienceOverlap |-> <<Edge("A", 20, 1), Edge("B", 10, 1)>>]

SecondRecord ==
    [steamId |-> 2, tags |-> <<"c">>, genres |-> <<"y", "x">>,
     releaseDate |-> 0, firstReleaseDate |-> StampIn(1971),
     copiesSold |-> 0, revenue |-> 0, reviews |-> 0, reviewScore |-> 0,
     players |-> 1, avgPlaytime |-> 0, followers |-> 0, wishlists |-> 0, owners |-> 0,
     steamPercent |-> 0, price |-> 0,
     history |-> <<[timeStamp |-> StampIn(1971), sales |-> 1, revenue |-> 0]>>,
     countryData |-> [is_dict |-> TRUE, items |-> << <<"kr", 20>>, <<"at", 10>> >>],
     audienceOverlap |-> <<Edge("A", 40, 2)>>]

CallerCollections ==
    {<<>>, <<FirstRecord>>, <<SecondRecord>>, <<FirstRecord, SecondRecord>>,
     <<SecondRecord, FirstRecord>>}

CallerCriteria ==
    {c \in FilterCriteria :
        /\ c.tags \in {None, Some(<<"b">>)}
        /\ c.genres = None /\ c.year_min = None /\ c.sold_min = None
        /\ c.reviews_min = None
        /\ c.year_max \in {None, Some(1971)}}

InitCalls ==
    /\ op = "none"
    /\ raised = "none"
    /\ budget = MaxCalls
    /\ games \in CallerCollections
    /\ history = IF games = <<>> THEN <<>> ELSE games[1].history
    /\ criteria \in CallerCriteria
    /\ freq = "monthly"
    /\ increments = EmptyDict
    /\ filtered = <<>>
    /\ summary = EmptyDict
    /\ RollupIdle /\ TrendIdle /\ CountryIdle /\ OverlapIdle /\ NormIdle
    /\ CollectIdle

NextCalls ==
    \/ CallGetYearlyIncrements
    \/ CallGetHistoryForGame
    \/ CallFilterGames
    \/ CallGetGenreStats
    \/ CallGetTagStats
    \/ CallGetYearlyTrends
    \/ CallGetHistoryAggregate
    \/ CallGetCountryAggregate
    \/ CallGetAudienceOverlapTop
    \/ CallGetAudienceOverlapNetwork
    \/ CallGetActivitySummary

SpecCalls == InitCalls /\ [][NextCalls]_vars

(***************************************************************************)
(* The bulk collector: collect_game_details with api_get, load_progress    *)
(* and save_progress.  One run walks the ids that the progress file does   *)
(* not record as done, fetches each with bounded retries, and writes the   *)
(* progress file every tenth id and at the end.  The process can be        *)
(* interrupted between any two steps and be started again.                 *)
(***************************************************************************)
MAX_RETRIES == 3

SAVE_INTERVAL == 10

MaxApps == 11

MaxShort == 3

MaxFlaky == 3

MaxRuns == 2

\* lists returned by collect_game_ids: distinct ids, or short lists with repeated ids
AppIdLists ==
    {[k \in 1..n |-> k] : n \in 1..MaxApps}
        \cup UNION {[1..n -> 1..2] : n \in 2..MaxShort}

\* what one HTTP request for an app id can end in; the ids above MaxFlaky always answer
Outcomes(appid) ==
    IF appid <= MaxFlaky THEN {"ok", "empty", "rate_limited", "error"} ELSE {"ok"}

RECURSIVE NotDone(_, _)
NotDone(ids, done) ==
    IF ids = <<>> THEN <<>>
    ELSE IF Head(ids) \in done THEN NotDone(Tail(ids), done)
         ELSE <<Head(ids)>> \o NotDone(Tail(ids), done)

Running == {"loop", "api", "record", "save", "dump", "final_dump"}

Stopped == {"idle", "returned", "interrupted", "crashed"}

InitCollect ==
    /\ op = "none" /\ raised = "none" /\ budget = MaxRuns
    /\ games = <<>> /\ freq = "yearly"
    /\ IncIdle /\ FilterIdle /\ RollupIdle /\ TrendIdle /\ CountryIdle
    /\ OverlapIdle /\ ActivityIdle /\ NormIdle
    /\ appids \in AppIdLists
    /\ progress_file = [state |-> "absent", done |-> {}, failed |-> {}]
    /\ out_files = {} /\ detail_requests = {}
    /\ pc = "idle"
    /\ done_set = {} /\ failed_set = {} /\ remaining = <<>> /\ loop_i = 0
    /\ attempt = 0 /\ requests = 0 /\ status = "none" /\ api_data = "none"

othersVars == <<games, freq, incVars, filterVars, rollupVars, trendVars, countryVars,
                overlapVars, activityVars, normVars>>

\* the variant that processes every id, done or not
CollectStartWithoutSkipping ==
    /\ pc \in Stopped
    /\ budget > 0
    /\ budget' = budget - 1
    /\ op' = "collect_game_details"
    /\ out_files' = {} /\ detail_requests' = {}
    /\ IF progress_file.state = "partial"
       THEN /\ raised' = "JSONDecodeError"
            /\ pc' = "crashed"
            /\ UNCHANGED <<done_set, failed_set, remaining, loop_i>>
       ELSE /\ raised' = "none"
            /\ done_set' = progress_file.done
            /\ failed_set' = progress_file.failed
            /\ remaining' = appids
            /\ loop_i' = 0
            /\ pc' = "loop"
    /\ UNCHANGED <<appids, progress_file, apiVars, othersVars>>

\* collect_game_details up to its loop: load_progress, done_set, failed_set, remaining
CollectStart ==
    /\ pc \in Stopped
    /\ budget > 0
    /\ budget' = budget - 1
    /\ op' = "collect_game_details"
    /\ out_files' = {} /\ detail_requests' = {}
    /\ IF progress_file.state = "partial"
       THEN /\ raised' = "JSONDecodeError"
            /\ pc' = "crashed"
            /\ UNCHANGED <<done_set, failed_set, remaining, loop_i>>
       ELSE /\ raised' = "none"
            /\ done_set' = progress_file.done
            /\ failed_set' = progress_file.failed
            /\ remaining' = NotDone(appids, progress_file.done)
            /\ loop_i' = 0
            /\ pc' = "loop"
    /\ UNCHANGED <<appids, progress_file, apiVars, othersVars>>

\* the next id of remaining: api_get is entered
LoopNext ==
    /\ pc = "loop"
    /\ loop_i < Len(remaining)
    /\ loop_i' = loop_i + 1
    /\ attempt' = 1 /\ requests' = 0 /\ status' = "none" /\ api_data' = "none"
    /\ pc' = "api"
    /\ UNCHANGED <<op, raised, budget, appids, progress_file, out_files, detail_requests,
                   done_set, failed_set, remaining, othersVars>>

\* the variant whose last attempt is followed by one more
ApiRequestOnceMore ==
    /\ pc = "api"
    /\ \E outcome \in Outcomes(remaining[loop_i]) :
          /\ requests' = requests + 1
          /\ detail_requests' = detail_requests \cup {remaining[loop_i]}
          /\ status' = outcome
          /\ IF outcome \in {"ok", "empty"}
             THEN /\ api_data' = (IF outcome = "ok" THEN "json" ELSE "empty")
                  /\ attempt' = attempt
                  /\ pc' = "record"
             ELSE IF attempt <= MAX_RETRIES
                  THEN /\ attempt' = attempt + 1
                       /\ api_data' = api_data
                       /\ pc' = "api"
                  ELSE /\ attempt' = attempt
                       /\ api_data' = "None"
                       /\ pc' = "record"
    /\ UNCHANGED <<op, raised, budget, appids, progress_file, out_files,
                   done_set, failed_set, remaining, loop_i, othersVars>>

\* one pass of the loop of api_get: one HTTP request and what follows it
ApiRequest ==
    /\ pc = "api"
    /\ \E outcome \in Outcomes(remaining[loop_i]) :
          /\ requests' = requests + 1
          /\ detail_requests' = detail_requests \cup {remaining[loop_i]}
          /\ status' = outcome
          /\ IF outcome \in {"ok", "empty"}
             THEN /\ api_data' = (IF outcome = "ok" THEN "json" ELSE "empty")
                  /\ attempt' = attempt
                  /\ pc' = "record"
             ELSE IF attempt < MAX_RETRIES
                  THEN /\ attempt' = attempt + 1
                       /\ api_data' = api_data
                       /\ pc' = "api"
                  ELSE /\ attempt' = attempt
                       /\ api_data' = "None"
                       /\ pc' = "record"
    /\ UNCHANGED <<op, raised, budget, appids, progress_file, out_files,
                   done_set, failed_set, remaining, loop_i, othersVars>>

\* the body of the loop after api_get: the detail file and the two sets
CollectRecord ==
    /\ pc = "record"
    /\ IF api_data = "json"
       THEN /\ out_files' = out_files \cup {remaining[loop_i]}
            /\ done_set' = done_set \cup {remaining[loop_i]}
            /\ failed_set' = failed_set \ {remaining[loop_i]}
       ELSE /\ failed_set' = failed_set \cup {remaining[loop_i]}
            /\ UNCHANGED <<out_files, done_set>>
    /\ pc' = (IF loop_i % SAVE_INTERVAL = 0 THEN "save" ELSE "loop")
    /\ UNCHANGED <<op, raised, budget, appids, progress_file, detail_requests,
                   remaining, loop_i, apiVars, othersVars>>

\* save_progress, first half: open(PROGRESS_FILE, "w") empties the file
SaveOpen ==
    /\ \/ pc = "save" /\ pc' = "dump"
       \/ pc = "loop" /\ loop_i = Len(remaining) /\ pc' = "final_dump"
    /\ progress_file' = [state |-> "partial", done |-> {}, failed |-> {}]
    /\ UNCHANGED <<op, raised, budget, appids, out_files, detail_requests,
                   done_set, failed_set, remaining, loop_i, apiVars, othersVars>>

\* save_progress, second half: json.dump and the close of the file
SaveDump ==
    /\ \/ pc = "dump" /\ pc' = "loop"
       \/ pc = "final_dump" /\ pc' = "returned"
    /\ progress_file' = [state |-> "ok", done |-> done_set, failed |-> failed_set]
    /\ UNCHANGED <<op, raised, budget, appids, out_files, detail_requests,
                   done_set, failed_set, remaining, loop_i, apiVars, othersVars>>

\* the process is stopped from outside between two steps
Interrupt ==
    /\ pc \in Running
    /\ pc' = "interrupted"
    /\ UNCHANGED <<op, raised, budget, appids, progress_file, out_files, detail_requests,
                   done_set, failed_set, remaining, loop_i, apiVars, othersVars>>

NextCollect ==
    \/ CollectStart
    \/ LoopNext
    \/ ApiRequest
    \/ CollectRecord
    \/ SaveOpen
    \/ SaveDump
    \/ Interrupt

SpecCollect == InitCollect /\ [][NextCollect]_vars

(***************************************************************************)
(* Chains of filter_games calls: apply_filters of the report page filters  *)
(* by genres, then by tags, then by the year bounds, each call on the      *)
(* result of the one before; a caller may also filter a result once more   *)
(* with the criteria that produced it.                                     *)
(***************************************************************************)
MaxFilterCalls == 3

NoCriteria ==
    [tags |-> None, genres |-> None, year_min |-> None, year_max |-> None,
     sold_min |-> None, reviews_min |-> None]

\* the criteria of one call of apply_filters
GenresOnly(c) == [NoCriteria EXCEPT !.genres = c.genres]

TagsOnly(c) == [NoCriteria EXCEPT !.tags = c.tags]

YearsOnly(c) == [NoCriteria EXCEPT !.year_min = c.year_min, !.year_max = c.year_max]

InitChain ==
    /\ op = "none"
    /\ raised = "none"
    /\ budget = MaxFilterCalls
    /\ games \in GameLists
    /\ criteria \in FilterCriteria
    /\ filtered = <<>>
    /\ freq = "monthly"
    /\ IncIdle /\ RollupIdle /\ TrendIdle /\ CountryIdle
    /\ OverlapIdle /\ ActivityIdle /\ NormIdle
    /\ CollectIdle

\* result = games; if selected_genres: result = filter_games(result, genres=...)
ApplyGenres ==
    /\ budget > 0
    /\ op = "none"
    /\ budget' = budget - 1
    /\ raised' = "none"
    /\ op' = "apply_filters: genres"
    /\ filtered' = (IF TruthyList(criteria.genres)
                    THEN FilterGames(games, GenresOnly(criteria)) ELSE games)
    /\ UNCHANGED <<games, freq, criteria, incVars, rollupVars, trendVars, countryVars,
                   overlapVars, activityVars, normVars, collectVars>>

\* if selected_tags: result = filter_games(result, tags=selected_tags)
ApplyTags ==
    /\ budget > 0
    /\ op = "apply_filters: genres"
    /\ budget' = budget - 1
    /\ raised' = "none"
    /\ op' = "apply_filters: tags"
    /\ filtered' = (IF TruthyList(criteria.tags)
                    THEN FilterGames(filtered, TagsOnly(criteria)) ELSE filtered)
    /\ UNCHANGED <<games, freq, criteria, incVars, rollupVars, trendVars, countryVars,
                   overlapVars, activityVars, normVars, collectVars>>

\* the variant that filters the whole collection by the year bounds
ApplyYearsToAllGames ==
    /\ budget > 0
    /\ op = "apply_filters: tags"
    /\ budget' = budget - 1
    /\ raised' = "none"
    /\ op' = "apply_filters: years"
    /\ filtered' = FilterGames(games, YearsOnly(criteria))
    /\ UNCHANGED <<games, freq, criteria, incVars, rollupVars, trendVars, countryVars,
                   overlapVars, activityVars, normVars, collectVars>>

\* result = filter_games(result, year_min=year_min_input, year_max=year_max_input)
ApplyYears ==
    /\ budget > 0
    /\ op = "apply_filters: tags"
    /\ budget' = budget - 1
    /\ raised' = "none"
    /\ op' = "apply_filters: years"
    /\ filtered' = FilterGames(filtered, YearsOnly(criteria))
    /\ UNCHANGED <<games, freq, criteria, incVars, rollupVars, trendVars, countryVars,
                   overlapVars, activityVars, normVars, collectVars>>

\* filter_games(filter_games(games, ...), ...): the result is filtered again
\* with the same criteria
CallFilterGamesAgain ==
    /\ budget > 0
    /\ op = "filter_games"
    /\ budget' = budget - 1
    /\ raised' = "none"
    /\ op' = "filter_games again"
    /\ filtered' = FilterGames(filtered, criteria)
    /\ UNCHANGED <<games, freq, criteria, incVars, rollupVars, trendVars, countryVars,
                   overlapVars, activityVars, normVars, collectVars>>

NextChain ==
    \/ ApplyGenres
    \/ ApplyTags
    \/ ApplyYears
    \/ CallFilterGames
    \/ CallFilterGamesAgain

SpecChain == InitChain /\ [][NextChain]_vars

(***************************************************************************)
(* Properties of the period increment calculator (SpecInc).                *)
(***************************************************************************)
\* what the returned map reports for period p, whichever function built it
OutSalesInc(p) ==
    IF op = "_get_yearly_increments" THEN increments[p].sales ELSE increments[p].sales_inc

OutRevenueInc(p) ==
    IF op = "_get_yearly_increments" THEN increments[p].revenue ELSE increments[p].revenue_inc

OutCumSales(p) ==
    IF op = "_get_yearly_increments" THEN increments[p].cumulative_sales
    ELSE increments[p].cumul_sales

OutCumRevenue(p) ==
    IF op = "_get_yearly_increments" THEN increments[p].cumulative_revenue
    ELSE increments[p].cumul_revenue

\* positions of the snapshots of `history` that fall in period p
InPeriod(p) ==
    {i \in 1..Len(history) :
        history[i].timeStamp # 0 /\ PeriodOf(history[i].timeStamp, freq) = p}

PeriodsOfHistory ==
    {PeriodOf(history[i].timeStamp, freq) :
        i \in {j \in 1..Len(history) : history[j].timeStamp # 0}}

\* positions of the snapshots with the maximum timestamp of period p
LatestInPeriod(p) ==
    {i \in InPeriod(p) : \A j \in InPeriod(p) : history[j].timeStamp <= history[i].timeStamp}

\* the output period just before p, as a set (empty for the first period)
PrevPeriod(p) ==
    {q \in DOMAIN increments :
        q < p /\ \A r \in DOMAIN increments : r < p => r <= q}

\* C1: for every history, in any input order, the output of a period is computed
\* from a snapshot that has the maximum timestamp among the snapshots of that
\* period: the period's cumulative values are that snapshot's, and every period
\* of the history is reported.
C1_PeriodFromLatestSnapshot ==
    op # "none" =>
        /\ DOMAIN increments = PeriodsOfHistory
        /\ \A p \in DOMAIN increments :
              \E i \in LatestInPeriod(p) :
                  /\ OutCumSales(p) = history[i].sales
                  /\ OutCumRevenue(p) = history[i].revenue

\* the same statement for get_history_for_game alone, which sorts by timestamp
C1_HoldsForHistoryForGame ==
    op = "get_history_for_game" => C1_PeriodFromLatestSnapshot

\* C2: every increment of every output period is >= 0, also when the cumulative
\* value decreases between two consecutive periods.
C2_IncrementsNonNegative ==
    op # "none" =>
        \A p \in DOMAIN increments : OutSalesInc(p) >= 0 /\ OutRevenueInc(p) >= 0

\* a cumulative value went down from one period to the next and was clamped
C2_Witness ==
    /\ op # "none"
    /\ \E p \in DOMAIN increments : \E q \in PrevPeriod(p) :
          /\ OutCumSales(p) < OutCumSales(q)
          /\ OutCumRevenue(p) < OutCumRevenue(q)
          /\ OutSalesInc(p) = 0
          /\ OutRevenueInc(p) = 0

\* C3: the baseline subtracted for the first period is 0 and for every later
\* period it is the raw cumulative value reported for the period just before
\* it (not the previous baseline plus the previous clamped increment); a
\* history of one snapshot yields one period whose increments are its
\* cumulative values.
C3_BaselineIsPreviousCumulative ==
    op # "none" =>
        /\ \A p \in DOMAIN increments :
              LET base_sales   == IF PrevPeriod(p) = {} THEN 0
                                  ELSE OutCumSales(CHOOSE q \in PrevPeriod(p) : TRUE)
                  base_revenue == IF PrevPeriod(p) = {} THEN 0
                                  ELSE OutCumRevenue(CHOOSE q \in PrevPeriod(p) : TRUE)
              IN /\ OutSalesInc(p) =
                       IF OutCumSales(p) > base_sales THEN OutCumSales(p) - base_sales ELSE 0
                 /\ OutRevenueInc(p) =
                       IF OutCumRevenue(p) > base_revenue
                       THEN OutCumRevenue(p) - base_revenue ELSE 0
        /\ (Len(history) = 1 /\ history[1].timeStamp # 0) =>
              /\ DOMAIN increments = {PeriodOf(history[1].timeStamp, freq)}
              /\ \A p \in DOMAIN increments :
                    /\ OutSalesInc(p) = history[1].sales
                    /\ OutRevenueInc(p) = history[1].revenue

\* three periods whose cumulative sales go down and up again: the increment of
\* the third is taken from the lowered value, not from the old high-water mark
C3_Witness ==
    /\ op # "none"
    /\ \E p \in DOMAIN increments : \E q \in PrevPeriod(p) : \E r \in PrevPeriod(q) :
          /\ OutCumSales(q) < OutCumSales(r)
          /\ OutCumSales(p) > OutCumSales(q)
          /\ OutSalesInc(p) = OutCumSales(p) - OutCumSales(q)

(***************************************************************************)
(* Properties of the filter engine (SpecFilter).                           *)
(***************************************************************************)
Common(wanted, have) == Elems(wanted) \cap Elems(have) # {}

YearAtLeast(g, y) == ReleaseYear(g) # None /\ ReleaseYear(g)[1] >= y

YearAtMost(g, y) == ReleaseYear(g) # None /\ ReleaseYear(g)[1] <= y

\* g satisfies every criterion of c, a criterion being in force unless it is None
SatisfiesAll(g, c) ==
    /\ c.tags = None \/ Common(c.tags[1], g.tags)
    /\ c.genres = None \/ Common(c.genres[1], g.genres)
    /\ c.year_min = None \/ YearAtLeast(g, c.year_min[1])
    /\ c.year_max = None \/ YearAtMost(g, c.year_max[1])
    /\ c.sold_min = None \/ g.copiesSold >= c.sold_min[1]
    /\ c.reviews_min = None \/ g.reviews >= c.reviews_min[1]

RECURSIVE IsSubsequence(_, _)
IsSubsequence(a, b) ==
    IF a = <<>> THEN TRUE
    ELSE IF b = <<>> THEN FALSE
    ELSE IF Head(a) = Head(b) THEN IsSubsequence(Tail(a), Tail(b))
    ELSE IsSubsequence(a, Tail(b))

\* C5: the result of filter_games is a subsequence of its input: every returned
\* record is an input record and the returned records keep their input order.
C5_ResultIsSubsequence ==
    op = "filter_games" => IsSubsequence(filtered, games)

\* two different records are returned and a record between or around them is dropped
C5_Witness ==
    /\ op = "filter_games"
    /\ Len(filtered) = 2
    /\ filtered[1] # filtered[2]
    /\ Len(games) = 3

\* no release year can be derived: both timestamps are absent or unparseable
Undated(g) ==
    /\ g.releaseDate \in {0, Unparseable}
    /\ g.firstReleaseDate \in {0, Unparseable}

\* C6: whenever year_min or year_max is set, filter_games excludes every record
\* for which no release year can be derived (release timestamps absent or
\* unparseable), even when the record satisfies all other criteria.
C6_UndatedExcludedWhenBoundSet ==
    (op = "filter_games" /\ (criteria.year_min # None \/ criteria.year_max # None)) =>
        \A i \in 1..Len(games) : Undated(games[i]) => games[i] \notin Elems(filtered)

\* only a year bound is given, and an undated record is dropped by it
C6_Witness ==
    /\ op = "filter_games"
    /\ criteria.year_min # None
    /\ criteria.year_max = None
    /\ criteria.tags = None /\ criteria.genres = None
    /\ criteria.sold_min = None /\ criteria.reviews_min = None
    /\ \E i \in 1..Len(games) :
          /\ games[i].releaseDate = Unparseable
          /\ Undated(games[i])
          /\ games[i] \notin Elems(filtered)

(***************************************************************************)
(* Properties of the category rollups (SpecRollup).                        *)
(***************************************************************************)
\* the group keys of record g under the rollup that was called
GroupKeysOf(g) == IF op = "get_genre_stats" THEN Elems(g.genres) ELSE Elems(g.tags)

\* positions of the records of group `key` that have a positive review score
ScoredMembers(key) ==
    {i \in 1..Len(games) : key \in GroupKeysOf(games[i]) /\ games[i].reviewScore > 0}

RECURSIVE ScoreTotal(_)
ScoreTotal(I) ==
    IF I = {} THEN 0
    ELSE LET i == CHOOSE x \in I : TRUE IN games[i].reviewScore + ScoreTotal(I \ {i})

\* C7: in the genre and tag rollups a group's avg_score is the sum of the review
\* scores of its records with score > 0 divided by the number of those records,
\* and 0 when the group has no record with a positive score; every group of the
\* collection is reported once.
C7_AvgScoreOverPositiveScores ==
    op \in {"get_genre_stats", "get_tag_stats"} =>
        /\ {stats[n].key : n \in 1..Len(stats)} = UNION {GroupKeysOf(games[i]) : i \in 1..Len(games)}
        /\ \A n, k \in 1..Len(stats) : stats[n].key = stats[k].key => n = k
        /\ \A n \in 1..Len(stats) :
              LET scored == ScoredMembers(stats[n].key) IN
              stats[n].avg_score =
                  IF scored = {} THEN Zero
                  ELSE Quotient(ScoreTotal(scored), Cardinality(scored))

\* a group of three records with scores 0, 80 and 90 has avg_score 170 / 2
C7_Witness ==
    /\ op = "get_genre_stats"
    /\ \E n \in 1..Len(stats) :
          /\ stats[n].game_count = 3
          /\ {games[i].reviewScore : i \in 1..Len(games)} = {0, 80, 90}
          /\ stats[n].avg_score = Quotient(170, 2)

(***************************************************************************)
(* Properties of the temporal rollups (SpecTrend).                         *)
(***************************************************************************)
\* what _get_yearly_increments reports for record i
YearlyOf(i) == GetYearlyIncrements(games[i].history)

\* what the walk of get_history_aggregate appends for record i alone
BucketsOf(i) == AggregateGame(EmptyDict, games[i], freq, window)

\* records with a snapshot in year yr and a strictly positive salesInc there
ActiveInYear(yr) ==
    {i \in 1..Len(games) : yr \in DOMAIN YearlyOf(i) /\ YearlyOf(i)[yr].sales > 0}

ActiveInPeriod(p) ==
    {i \in 1..Len(games) : p \in DOMAIN BucketsOf(i) /\ BucketsOf(i)[p].sales_inc[1] > 0}

\* records with a dated snapshot in period p whose year is inside the window
PresentInPeriod(p) ==
    {i \in 1..Len(games) :
        \E k \in 1..Len(games[i].history) :
            LET ts == games[i].history[k].timeStamp IN
            /\ ts # 0
            /\ PeriodOf(ts, freq) = p
            /\ YearOf(ts) >= window.year_min
            /\ YearOf(ts) <= window.year_max}

\* C8, as stated: in both temporal rollups the game count of a period is the
\* number of records whose salesInc in that period is strictly positive.
C8_CountsPositiveIncrementsOnly ==
    /\ op = "get_yearly_trends" =>
          \A yr \in DOMAIN trends :
              trends[yr].game_count = Cardinality(ActiveInYear(yr))
    /\ op = "get_history_aggregate" =>
          \A p \in DOMAIN trends :
              trends[p].total_games = Cardinality(ActiveInPeriod(p))

\* C8, amended: game_count of get_yearly_trends is the number of records whose
\* salesInc in the year is strictly positive; total_games of
\* get_history_aggregate is the number of records with a dated snapshot of the
\* period inside the year window, whatever their increment.
C8_GameCounts ==
    /\ op = "get_yearly_trends" =>
          \A yr \in DOMAIN trends :
              trends[yr].game_count = Cardinality(ActiveInYear(yr))
    /\ op = "get_history_aggregate" =>
          \A p \in DOMAIN trends :
              trends[p].total_games = Cardinality(PresentInPeriod(p))

\* get_yearly_trends saw two records with a snapshot in one year and counted
\* the one whose increment is positive
C8_Witness ==
    /\ op = "get_yearly_trends"
    /\ \E yr \in DOMAIN trends :
          /\ trends[yr].game_count = 1
          /\ Cardinality({i \in 1..Len(games) : yr \in DOMAIN YearlyOf(i)}) = 2

(***************************************************************************)
(* Properties of the country rollup (SpecCountry).                         *)
(***************************************************************************)
\* positions of the records whose countryData is a non-empty dict
Contributing ==
    {i \in 1..Len(games) :
        games[i].countryData.is_dict /\ games[i].countryData.items # <<>>}

\* the weight of record i: the chosen metric, or 1 when it is zero or absent
RecordWeight(i) ==
    LET metric == IF weight_by = "revenue" THEN games[i].revenue
                  ELSE IF weight_by = "sales" THEN games[i].copiesSold
                  ELSE 1
    IN IF metric = 0 THEN 1 ELSE metric

\* the share of a code in record i, 0 when the record does not list the code
ShareOf(i, code) ==
    LET items == games[i].countryData.items
        at    == {j \in 1..Len(items) : items[j][1] = code}
    IN IF at = {} THEN 0 ELSE items[CHOOSE j \in at : TRUE][2]

AllCodes ==
    UNION {{games[i].countryData.items[j][1] :
               j \in 1..Len(games[i].countryData.items)} : i \in Contributing}

RECURSIVE WeightedShares(_, _)
WeightedShares(S, code) ==
    IF S = {} THEN 0
    ELSE LET i == CHOOSE x \in S : TRUE IN
         ShareOf(i, code) * RecordWeight(i) + WeightedShares(S \ {i}, code)

RECURSIVE Weights(_)
Weights(S) ==
    IF S = {} THEN 0
    ELSE LET i == CHOOSE x \in S : TRUE IN RecordWeight(i) + Weights(S \ {i})

\* for every code of a contributing record, the sum of share * weight
Numerators == [code \in AllCodes |-> WeightedShares(Contributing, code)]

\* the codes whose label is a key of the result
ReturnedCodes ==
    LET keys == {countries[k].key : k \in 1..Len(countries)} IN
    {code \in AllCodes : Label(code) \in keys}

\* p hundredths is a nearest number of hundredths to num / den
NearestHundredth(p, num, den) ==
    LET diff == 100 * num - p * den IN
    2 * (IF diff < 0 THEN 0 - diff ELSE diff) <= den

\* C9, as stated: every country code of a contributing record is returned
\* with exactly (sum of share * weight) / (sum of weight) over the
\* contributing records.
C9_ExactWeightedAverage ==
    op = "get_country_aggregate" =>
        LET num == Numerators
            den == Weights(Contributing)
        IN \A code \in AllCodes :
               \E k \in 1..Len(countries) :
                   /\ countries[k].key = Label(code)
                   /\ countries[k].pct * den = 100 * num[code]

\* C9, amended: every returned entry is a country code of a contributing
\* record with (sum of share * weight) / (sum of weight) over the contributing
\* records, rounded to two decimals; every such code is returned when there
\* are at most 30 of them; nothing is returned when no record contributes.
C9_RoundedWeightedAverage ==
    op = "get_country_aggregate" =>
        LET num == Numerators
            den == Weights(Contributing)
        IN /\ \A k \in 1..Len(countries) :
                 \E code \in AllCodes :
                     /\ countries[k].key = Label(code)
                     /\ NearestHundredth(countries[k].pct, num[code], den)
           /\ Cardinality(AllCodes) <= TopCountries => ReturnedCodes = AllCodes
           /\ Contributing = {} => countries = <<>>

\* weighting by revenue, two records contribute, one of them with its absent
\* revenue replaced by 1, and a returned percentage had to be rounded
C9_Witness ==
    /\ op = "get_country_aggregate"
    /\ weight_by = "revenue"
    /\ Cardinality(Contributing) = 2
    /\ \E i \in Contributing : games[i].revenue = 0
    /\ \E i \in Contributing : games[i].revenue > 0
    /\ \E code \in ReturnedCodes :
          (100 * Numerators[code]) % Weights(Contributing) # 0

\* C10: the entries are in non-increasing order of percentage, there are at
\* most 30 of them (all the codes when fewer occur), and no code left out has
\* a larger weighted percentage than a code returned.
C10_SortedTopThirty ==
    op = "get_country_aggregate" =>
        LET num      == Numerators
            returned == ReturnedCodes
        IN /\ \A k \in 1..(Len(countries) - 1) :
                 countries[k].pct >= countries[k + 1].pct
           /\ Len(countries) <= TopCountries
           /\ Cardinality(returned) = Len(countries)
           /\ Len(countries) = IF Cardinality(AllCodes) < TopCountries
                               THEN Cardinality(AllCodes) ELSE TopCountries
           /\ \A c \in AllCodes \ returned, d \in returned : num[d] >= num[c]

\* more than 30 codes occurred, 30 were returned, not all with one percentage
C10_Witness ==
    /\ op = "get_country_aggregate"
    /\ Cardinality(AllCodes) > TopCountries
    /\ Len(countries) = TopCountries
    /\ \E k \in 1..(Len(countries) - 1) : countries[k].pct > countries[k + 1].pct

(***************************************************************************)
(* Properties of the activity summary (SpecActivity).                      *)
(***************************************************************************)
\* the strictly positive values of a metric, in record order
PositiveObservations(key) ==
    LET field == Metrics[FieldOf(key)][2]
        at == {i \in 1..Len(games) : FieldValue(games[i], field) > 0}
        idx == SortedKeys(at)
    IN  [k \in 1..Len(idx) |-> FieldValue(games[idx[k]], field)]

StatFields == {"avg", "max", "median", "total", "count"}

\* the five statistics of a non-empty list of observations
IsStatsOf(st, obs) ==
    /\ st.count = Len(obs)
    /\ st.total = SumSeq(obs)
    /\ st.avg.num * Len(obs) = SumSeq(obs) * st.avg.den
    /\ st.max \in Elems(obs) /\ \A i \in 1..Len(obs) : obs[i] <= st.max
    /\ st.median \in Elems(obs)
    /\ 2 * Cardinality({i \in 1..Len(obs) : obs[i] < st.median}) <= Len(obs)
    /\ 2 * Cardinality({i \in 1..Len(obs) : obs[i] > st.median}) <= Len(obs)

\* C11: for every metric the summary holds avg, max, median, total and count
\* of the strictly positive values only, and for a metric without a positive
\* value (also when the collection is empty) a struct of the same five
\* fields, all zero.
C11_StatsOverPositiveOrZeroStruct ==
    op = "get_activity_summary" =>
        /\ DOMAIN summary = MetricKeys
        /\ \A key \in MetricKeys :
              /\ DOMAIN summary[key] = StatFields
              /\ IF PositiveObservations(key) = <<>>
                 THEN /\ summary[key].avg.num = 0 /\ summary[key].max = 0
                      /\ summary[key].median = 0 /\ summary[key].total = 0
                      /\ summary[key].count = 0
                 ELSE IsStatsOf(summary[key], PositiveObservations(key))

\* the part of C11 about metrics that have a positive value
C11_HoldsForObservedMetrics ==
    op = "get_activity_summary" =>
        \A key \in DOMAIN summary :
            PositiveObservations(key) # <<>> =>
                /\ DOMAIN summary[key] = StatFields
                /\ IsStatsOf(summary[key], PositiveObservations(key))

\* the zero-struct never comes from a division
C11_ZeroStructWithoutCount ==
    op = "get_activity_summary" =>
        \A key \in DOMAIN summary :
            PositiveObservations(key) = <<>> => summary[key] = ZeroStruct

(***************************************************************************)
(* Properties of the overlap functions (SpecOverlap).                      *)
(***************************************************************************)
\* the positions <<record, edge>> of the edges to target sid whose link is
\* above the floor
EdgesAbove(sid, floor) ==
    UNION {{<<i, k>> : k \in {j \in 1..Len(games[i].audienceOverlap) :
                                  /\ games[i].audienceOverlap[j].steamId = sid
                                  /\ games[i].audienceOverlap[j].link > floor}} :
           i \in 1..Len(games)}

EdgeAt(ik) == games[ik[1]].audienceOverlap[ik[2]]

OverlapTargets == {"A", "B", "C"}

\* the targets that have a surviving edge
SurvivingTargets == {sid \in OverlapTargets : EdgesAbove(sid, TopLinkFloor) # {}}

\* the records that have at least one surviving edge to sid
SourcesOf(sid) == {ik[1] : ik \in EdgesAbove(sid, TopLinkFloor)}

RECURSIVE SumOver(_, _)
SumOver(S, f) ==
    IF S = {} THEN 0
    ELSE LET x == CHOOSE y \in S : TRUE IN f[x] + SumOver(S \ {x}, f)

\* the sum of the links of a set of edge positions
LinkTotal(S) == SumOver(S, [ik \in S |-> EdgeAt(ik).link])

\* p thousandths is the mean of the links of S, rounded to the nearest
NearestThousandth(p, S) ==
    LET diff == 10 * LinkTotal(S) - p * Cardinality(S) IN
    2 * (IF diff < 0 THEN 0 - diff ELSE diff) <= Cardinality(S)

\* the part of C12 about get_audience_overlap_top, whose floor is 0.05
C12_HoldsForOverlapTop ==
    op = "get_audience_overlap_top" =>
        \A k \in 1..Len(overlaps) :
            LET above == EdgesAbove(overlaps[k].steamId, TopLinkFloor) IN
            /\ above # {}
            /\ overlaps[k].overlap_game_count <= Cardinality(above)
            /\ NearestThousandth(overlaps[k].avg_link, above)

\* the part of C12 about get_audience_overlap_network, whose floor is 0.1
C12_NetworkAboveFloor ==
    op = "get_audience_overlap_network" =>
        \A k \in 1..Len(edges) : edges[k].link > NetworkLinkFloor

\* C12: no edge whose link is less than or equal to the floor in effect
\* contributes to an output: a target appears in the ranking only through
\* edges above 0.05, which alone make its count and its average link, and no
\* edge of the network has a link of 0.1 or less.
C12_NoEdgeAtOrBelowFloor == C12_HoldsForOverlapTop /\ C12_NetworkAboveFloor

\* what the network does guarantee: no edge below 0.1
C12_NetworkNotBelowFloor ==
    op = "get_audience_overlap_network" =>
        \A k \in 1..Len(edges) : edges[k].link >= NetworkLinkFloor

\* C13: overlap_game_count of a target is the number of distinct records with
\* at least one surviving edge to it; a record that lists the target in
\* several edges counts once.
C13_CountsDistinctSources ==
    op = "get_audience_overlap_top" =>
        \A k \in 1..Len(overlaps) :
            overlaps[k].overlap_game_count = Cardinality(SourcesOf(overlaps[k].steamId))

\* what the count is: the number of surviving edges
C13_CountsSurvivingEdges ==
    op = "get_audience_overlap_top" =>
        \A k \in 1..Len(overlaps) :
            overlaps[k].overlap_game_count =
                Cardinality(EdgesAbove(overlaps[k].steamId, TopLinkFloor))

\* the largest copiesSold of a set of edge positions
CopiesMax(S) ==
    CHOOSE c \in {EdgeAt(ik).copiesSold : ik \in S} :
        \A ik \in S : EdgeAt(ik).copiesSold <= c

\* C14: reach_score of a returned target = (mean link of the surviving edges
\* to it) * (largest copiesSold of those edges).
C14_ReachScore ==
    op = "get_audience_overlap_top" =>
        \A k \in 1..Len(overlaps) :
            LET above == EdgesAbove(overlaps[k].steamId, TopLinkFloor) IN
            overlaps[k].reach_score.num * Cardinality(above)
                = LinkTotal(above) * CopiesMax(above) * overlaps[k].reach_score.den

\* a returned target has two surviving edges with different links and
\* different sales figures, the first of them not the largest
C14_Witness ==
    /\ op = "get_audience_overlap_top"
    /\ \E k \in 1..Len(overlaps) :
          LET above == EdgesAbove(overlaps[k].steamId, TopLinkFloor) IN
          /\ \E a, b \in above :
                /\ EdgeAt(a).link # EdgeAt(b).link
                /\ EdgeAt(a).copiesSold < EdgeAt(b).copiesSold
                /\ a[1] < b[1] \/ (a[1] = b[1] /\ a[2] < b[2])
                /\ \A c \in above : c[1] > a[1] \/ (c[1] = a[1] /\ c[2] >= a[2])
          /\ overlaps[k].reach_score.num > 0

\* the value of the sort key by of an output element, as a quotient
KeyOf(x, by) ==
    CASE by = "reach_score"        -> x.reach_score
      [] by = "avg_link"           -> Quotient(x.avg_link, 1)
      [] by = "overlap_game_count" -> Quotient(x.overlap_game_count, 1)
      [] by = "copies_sold"        -> Quotient(x.copies_sold, 1)

ValidSortBys == {"reach_score", "avg_link", "overlap_game_count", "copies_sold"}

NonIncreasingInKey ==
    sort_by \in ValidSortBys =>
        \A k \in 1..(Len(overlaps) - 1) :
            KeyOf(overlaps[k], sort_by).num * KeyOf(overlaps[k + 1], sort_by).den
                >= KeyOf(overlaps[k + 1], sort_by).num * KeyOf(overlaps[k], sort_by).den

\* C15: at most top_n targets are returned, each among the 2 * top_n targets
\* referenced by the most distinct records (fewer than 2 * top_n targets are
\* referenced by more records), in non-increasing order of the sort key.
C15_TopOfCandidates ==
    op = "get_audience_overlap_top" =>
        /\ Len(overlaps) <= top_n
        /\ \A k \in 1..Len(overlaps) :
              Cardinality({sid \in SurvivingTargets :
                              Cardinality(SourcesOf(sid))
                                  > Cardinality(SourcesOf(overlaps[k].steamId))})
                  < 2 * top_n
        /\ NonIncreasingInKey

\* the same with the count the function keeps, one per surviving edge
C15_HoldsForEdgeCounts ==
    op = "get_audience_overlap_top" =>
        /\ Len(overlaps) <= top_n
        /\ \A k \in 1..Len(overlaps) :
              Cardinality({sid \in SurvivingTargets :
                              Cardinality(EdgesAbove(sid, TopLinkFloor))
                                  > Cardinality(EdgesAbove(overlaps[k].steamId, TopLinkFloor))})
                  < 2 * top_n
        /\ NonIncreasingInKey

\* C15 for collections in which no record lists a target twice
C15_HoldsWithoutRepeatedTargets ==
    (\A sid \in OverlapTargets :
        Cardinality(EdgesAbove(sid, TopLinkFloor)) = Cardinality(SourcesOf(sid)))
    => C15_TopOfCandidates

(***************************************************************************)
(* Properties of the configuration values (SpecOverlap, SpecInc).          *)
(***************************************************************************)
DocumentedFreqs == {"yearly", "monthly"}

\* C16: a call with a freq other than yearly / monthly, or with a sort key
\* outside the documented four, ends in an error; it never returns a result.
C16_InvalidConfigurationRaises ==
    /\ (op = "get_audience_overlap_top" /\ sort_by \notin ValidSortBys)
           => raised # "none"
    /\ (op \in {"get_history_for_game", "get_history_aggregate"}
           /\ freq \notin DocumentedFreqs) => raised # "none"

\* what happens instead: an unknown sort key ranks by reach_score
C16_UnknownSortKeyRanksByReachScore ==
    (op = "get_audience_overlap_top" /\ sort_by \notin ValidSortBys) =>
        /\ raised = "none"
        /\ \A k \in 1..(Len(overlaps) - 1) :
              overlaps[k].reach_score.num * overlaps[k + 1].reach_score.den
                  >= overlaps[k + 1].reach_score.num * overlaps[k].reach_score.den

\* and an unknown freq reports months
C16_UnknownFreqReportsMonths ==
    (op = "get_history_for_game" /\ freq \notin DocumentedFreqs) =>
        /\ raised = "none"
        /\ DOMAIN increments =
               {YearMonthOf(history[i].timeStamp) :
                   i \in {j \in 1..Len(history) : history[j].timeStamp > 0}}

(***************************************************************************)
(* Properties of the temporal functions on mixed histories (SpecMixed).    *)
(***************************************************************************)
\* the snapshots whose timestamp is present and converts
ValidOnly(h) == SelectSeq(h, LAMBDA s : s.timeStamp > 0)

ValidGames == [i \in 1..Len(games) |-> [history |-> ValidOnly(games[i].history)]]

\* the part of C17 about get_yearly_trends
C17_HoldsForYearlyTrends ==
    op = "get_yearly_trends" =>
        raised = "none" /\ trends = GetYearlyTrends(ValidGames)

\* C17: on a history that mixes valid snapshots with snapshots whose timestamp
\* is None, missing or not convertible, get_yearly_trends, get_history_for_game
\* and get_history_aggregate return, without raising, what they return for the
\* valid snapshots alone.
C17_InvalidTimestampsDropped ==
    /\ C17_HoldsForYearlyTrends
    /\ op = "get_history_for_game" =>
          raised = "none" /\ increments = GetHistoryForGame(ValidOnly(history), freq)
    /\ op = "get_history_aggregate" =>
          raised = "none" /\ trends = GetHistoryAggregate(ValidGames, freq, window)

\* whenever the two sorting functions return, they return that result
C17_HoldsWhenReturning ==
    raised = "none" =>
        /\ op = "get_history_for_game" =>
              increments = GetHistoryForGame(ValidOnly(history), freq)
        /\ op = "get_history_aggregate" =>
              trends = GetHistoryAggregate(ValidGames, freq, window)

\* and they return unless a None timestamp meets another snapshot
C17_RaisesOnlyOnNone ==
    raised # "none" =>
        /\ op \in {"get_history_for_game", "get_history_aggregate"}
        /\ Len(history) >= 2
        /\ \E i \in 1..Len(history) : history[i].timeStamp = Null

NoUsableSnapshot == \A i \in 1..Len(history) : history[i].timeStamp <= 0

\* the collection without the record under test
OtherGames == SelectSeq(games, LAMBDA g : g = Companion)

\* C18: a record without history, or without a usable snapshot, gives an
\* empty map in the increment calculators and adds nothing to the temporal
\* rollups; no error is raised.
C18_NoUsableSnapshotAddsNothing ==
    (op # "none" /\ NoUsableSnapshot) =>
        /\ raised = "none"
        /\ op \in {"_get_yearly_increments", "get_history_for_game"} =>
              increments = EmptyDict
        /\ op = "get_yearly_trends" => trends = GetYearlyTrends(OtherGames)
        /\ op = "get_history_aggregate" =>
              trends = GetHistoryAggregate(OtherGames, freq, window)

\* C18 for _get_yearly_increments and get_yearly_trends, which do not sort
C18_HoldsWithoutSorting ==
    op \in {"_get_yearly_increments", "get_yearly_trends"} => C18_NoUsableSnapshotAddsNothing

\* C18 for histories in which no timestamp is None
C18_HoldsUnlessNone ==
    (\A i \in 1..Len(history) : history[i].timeStamp # Null)
        => C18_NoUsableSnapshotAddsNothing

(***************************************************************************)
(* Properties of the field normalization (SpecNorm).                       *)
(***************************************************************************)
\* the JSON text of a value, without white space
RECURSIVE Dumps(_), DumpsItems(_)
Dumps(v) ==
    CASE v.kind = "num"  -> <<"1">>
      [] v.kind = "str"  -> <<"k">>
      [] v.kind = "list" -> <<"[">> \o DumpsItems(v.items) \o <<"]">>
      [] v.kind = "dict" -> IF DOMAIN v.of = {} THEN <<"{", "}">>
                            ELSE <<"{", "k", ":">> \o Dumps(v.of["k"]) \o <<"}">>

DumpsItems(items) ==
    IF items = <<>> THEN <<>>
    ELSE IF Len(items) = 1 THEN Dumps(items[1])
    ELSE Dumps(items[1]) \o <<",">> \o DumpsItems(Tail(items))

\* the JSON values whose text has at most n characters, and the non-empty
\* lists of them whose text, commas included, has at most n characters
RECURSIVE Documents(_), ItemLists(_)
Documents(n) ==
    IF n < 1 THEN {}
    ELSE {Num, [kind |-> "str", chars |-> <<"k">>]}
         \cup (IF n < 2 THEN {}
               ELSE {[kind |-> "list", items |-> <<>>], [kind |-> "dict", of |-> EmptyDict]}
                    \cup {[kind |-> "list", items |-> items] : items \in ItemLists(n - 2)}
                    \cup {[kind |-> "dict", of |-> [key \in {"k"} |-> v]] :
                             v \in Documents(n - 4)})

ItemLists(n) ==
    UNION {{<<v>>} \cup {<<v>> \o rest : rest \in ItemLists(n - Len(Dumps(v)) - 1)} :
           v \in Documents(n)}

\* the strings of the model that are the text of a list or of a dict
ContainerTexts ==
    {Dumps(v) : v \in {d \in Documents(MaxChars) : d.kind \in {"list", "dict"}}}

\* C19: _parse_parquet_value never raises; None and NaN give None; a string
\* that starts with [ or { and is the text of a list or dict gives that list
\* or dict; every other value, a string that does not parse included, is
\* returned unchanged; and normalizing the returned value returns it again.
C19_TotalAndIdempotent ==
    /\ op # "none" =>
          /\ raised = "none"
          /\ val.kind \in {"none", "nan"} => normalized = NoneValue
          /\ (val.kind = "str" /\ val.chars \in ContainerTexts) =>
                /\ normalized.kind \in {"list", "dict"}
                /\ Dumps(normalized) = val.chars
          /\ (val.kind = "str" /\ val.chars \notin ContainerTexts) => normalized = val
          /\ val.kind \in {"num", "list", "dict"} => normalized = val
    /\ op = "_parse_parquet_value again" => renormalized = normalized

\* a string was parsed into a list of two items, and the list normalized again
C19_Witness ==
    /\ op = "_parse_parquet_value again"
    /\ val.kind = "str"
    /\ normalized.kind = "list"
    /\ Len(normalized.items) = 2

\* a string that starts like a list but does not parse came back unchanged
C19_WitnessUnparsed ==
    /\ op = "_parse_parquet_value again"
    /\ val.kind = "str" /\ Len(val.chars) > 1 /\ val.chars[1] = "["
    /\ normalized = val

(***************************************************************************)
(* Properties of sequences of calls (SpecCalls).                           *)
(***************************************************************************)
\* no call changes the collection, a record, a history or the criteria
InputsUnchanged == games' = games /\ history' = history /\ criteria' = criteria

\* a call that repeats the previous one, with the same arguments, returns
\* what the previous one returned
RepeatReturnsSame ==
    (op # "none" /\ op' = op) =>
        /\ op = "_get_yearly_increments" => increments' = increments
        /\ (op = "get_history_for_game" /\ freq' = freq) =>
              increments' = increments /\ raised' = raised
        /\ op = "filter_games" => filtered' = filtered
        /\ op \in {"get_genre_stats", "get_tag_stats"} => stats' = stats
        /\ op = "get_yearly_trends" => trends' = trends
        /\ (op = "get_history_aggregate" /\ freq' = freq /\ window' = window) =>
              trends' = trends /\ raised' = raised
        /\ (op = "get_country_aggregate" /\ weight_by' = weight_by) =>
              countries' = countries
        /\ (op = "get_audience_overlap_top" /\ top_n' = top_n /\ sort_by' = sort_by) =>
              overlaps' = overlaps
        /\ op = "get_audience_overlap_network" => edges' = edges
        /\ op = "get_activity_summary" => summary' = summary

StartSkipsDone ==
    (pc \in Stopped /\ pc' = "loop") =>
        /\ \A k \in 1..Len(remaining') : remaining'[k] \notin progress_file.done
        /\ detail_requests' = {} /\ out_files' = {}

\* no step requests the details of an id outside remaining, or writes its file
OnlyRemainingTouched ==
    pc \in Running =>
        /\ detail_requests' \subseteq detail_requests \cup Elems(remaining)
        /\ out_files' \subseteq out_files \cup Elems(remaining)
        /\ remaining' = remaining

\* C21: on a re-run every id that the persisted progress file records as done
\* is skipped: no detail request is sent for it and its output file is not
\* written again.
C21_DoneIdsSkipped == [][StartSkipsDone /\ OnlyRemainingTouched]_vars

\* a second run returned: it skipped an id recorded as done by the first run
\* and requested another id
C21_Witness ==
    /\ pc = "returned"
    /\ budget = MaxRuns - 2
    /\ Elems(appids) \ Elems(remaining) # {}
    /\ detail_requests # {}
    /\ detail_requests \cap (Elems(appids) \ Elems(remaining)) = {}

Failures == {"rate_limited", "error"}

\* what one pass of the loop of api_get does with the outcome of its request
ApiPass ==
    (pc = "api" /\ pc' # "interrupted") =>
        /\ requests' = requests + 1
        /\ requests' <= MAX_RETRIES
        /\ status' \in {"ok", "empty"} =>
              pc' = "record" /\ api_data' = (IF status' = "ok" THEN "json" ELSE "empty")
        /\ (status' \in Failures /\ requests' < MAX_RETRIES) => pc' = "api"
        /\ (status' \in Failures /\ requests' = MAX_RETRIES) =>
              pc' = "record" /\ api_data' = "None"

\* a call that is still running has sent fewer than MAX_RETRIES requests, and
\* a call returns None only after MAX_RETRIES requests, the last one failed
ApiBounded ==
    /\ pc = "api" => requests < MAX_RETRIES /\ attempt = requests + 1
    /\ (pc = "record" /\ api_data = "None") =>
          requests = MAX_RETRIES /\ status \in Failures

\* C22: api_get ends after at most MAX_RETRIES (3) HTTP requests; it returns
\* the parsed response of the first successful attempt, tries again after a
\* 429 or a request error, and returns None when every attempt ended in a 429
\* or an error.
C22_BoundedRetries == [][ApiPass /\ ApiBounded /\ ApiBounded']_vars

\* the third request succeeded after two failed ones and its response was
\* returned
C22_Witness ==
    /\ pc = "record"
    /\ requests = MAX_RETRIES
    /\ status = "ok"
    /\ api_data = "json"

\* the done list that a reader of the progress file finds
PersistedDone == IF progress_file.state = "ok" THEN progress_file.done ELSE {}

\* the games whose detail file this run has written and the progress file
\* does not record as done
Unsaved == out_files \ PersistedDone

AtMostTenUnsaved ==
    /\ pc \in Running \cup {"interrupted"} => Cardinality(Unsaved) <= SAVE_INTERVAL
    /\ pc = "returned" => Unsaved = {}

\* C23: the progress file is written after every tenth processed game and
\* once more at the end, so wherever the run is interrupted at most 10 games
\* whose detail file has been written are missing from the persisted done
\* list, and after a normal return the persisted done list holds every game
\* fetched in the run.
C23_AtMostTenUnsaved == AtMostTenUnsaved

\* the part of C23 that holds: while no save_progress is under way (the file
\* is absent or whole) at most ten written games are unsaved, and none after
\* the return
C23_HoldsWhileFileWhole == progress_file.state # "partial" => AtMostTenUnsaved

\* the progress file is written at the tenth, twentieth, ... game of the run
\* and at the end
C23_SavedEveryTenthAndAtEnd ==
    [][/\ pc' = "dump" => (loop_i > 0 /\ loop_i % SAVE_INTERVAL = 0)
       /\ (pc = "record" /\ pc' = "loop") => loop_i % SAVE_INTERVAL # 0
       /\ pc' = "returned" => (pc = "final_dump" /\ progress_file'.done = done_set)]_vars

\* the process was stopped inside the last save_progress of a run that wrote
\* eleven detail files: the progress file is empty
C23_InterruptedInsideSave ==
    /\ pc = "interrupted"
    /\ progress_file.state = "partial"
    /\ Cardinality(out_files) > SAVE_INTERVAL

\* an id is in done and in failed only if it was in both before the step
DisjointPreserved ==
    (done_set \cap failed_set = {}) => (done_set' \cap failed_set' = {})

\* C24: starting from disjoint done and failed sets, after processing any
\* list of app ids (repeated ids included) under any pattern of successes
\* and failures, no id is in both done and failed.
C24_DoneAndFailedDisjoint == [][DisjointPreserved]_vars

RECURSIVE Distinct(_)
Distinct(ids) ==
    IF ids = <<>> THEN TRUE
    ELSE /\ \A k \in 1..Len(Tail(ids)) : Tail(ids)[k] # Head(ids)
         /\ Distinct(Tail(ids))

\* the part of C24 that holds: a list without repeated ids keeps the sets
\* disjoint
C24_HoldsForDistinctIds == [][Distinct(appids) => DisjointPreserved]_vars

\* a run over a list with a repeated id returned with the id in both sets
C24_InBoth ==
    /\ pc = "returned"
    /\ budget = MaxRuns - 1
    /\ done_set \cap failed_set # {}
    /\ progress_file.done \cap progress_file.failed # {}

(***************************************************************************)
(* Further properties of filter_games (SpecFilter).                        *)
(***************************************************************************)
YearBoundSet(c) == TruthyInt(c.year_min) \/ TruthyInt(c.year_max)

WithoutYearBounds(c) == [c EXCEPT !.year_min = None, !.year_max = None]

\* the year of the first release lies inside the year bounds of the criteria
FirstReleaseInBounds(g, c) ==
    /\ g.firstReleaseDate # 0 /\ g.firstReleaseDate # Unparseable
    /\ TruthyInt(c.year_min) => YearOf(g.firstReleaseDate) >= c.year_min[1]
    /\ TruthyInt(c.year_max) => YearOf(g.firstReleaseDate) <= c.year_max[1]

\* C25: with a year bound set, a record whose releaseDate is present but
\* cannot be converted and whose firstReleaseDate converts to a year inside
\* the bounds passes the year filter: it is returned whenever the other
\* criteria keep it.
C25_FallsBackToFirstRelease ==
    op = "filter_games" =>
        \A k \in 1..Len(games) :
            ( /\ YearBoundSet(criteria)
              /\ games[k].releaseDate = Unparseable
              /\ FirstReleaseInBounds(games[k], criteria)
              /\ games[k] \in Elems(FilterGames(games, WithoutYearBounds(criteria))) )
            => games[k] \in Elems(filtered)

\* the fallback that the code does perform: an absent releaseDate gives way
\* to the firstReleaseDate
C25_HoldsForAbsentReleaseDate ==
    op = "filter_games" =>
        \A k \in 1..Len(games) :
            ( /\ YearBoundSet(criteria)
              /\ games[k].releaseDate = 0
              /\ FirstReleaseInBounds(games[k], criteria)
              /\ games[k] \in Elems(FilterGames(games, WithoutYearBounds(criteria))) )
            => games[k] \in Elems(filtered)

\* a record with an unconvertible releaseDate and a first release in 1971 was
\* dropped by a filter that asks for 1971 only
C25_DroppedDespiteFirstRelease ==
    /\ op = "filter_games"
    /\ Len(games) = 1
    /\ games[1].releaseDate = Unparseable
    /\ games[1].firstReleaseDate = StampIn(1971)
    /\ criteria = [tags |-> None, genres |-> None, year_min |-> Some(1971),
                   year_max |-> Some(1971), sold_min |-> None, reviews_min |-> None]
    /\ filtered = <<>>

(***************************************************************************)
(* Further properties of the temporal rollups (SpecTrend).                 *)
(***************************************************************************)
\* every dated snapshot of every history lies in a year of the window
AllYearsInside(gs, w) ==
    \A g \in 1..Len(gs) : \A k \in 1..Len(gs[g].history) :
        LET ts == gs[g].history[k].timeStamp IN
        (~NoTimeStamp(ts) /\ ~ConversionFails(ts)) =>
            (YearOf(ts) >= w.year_min /\ YearOf(ts) <= w.year_max)

\* the dated snapshots of a history come in time order
DatedInTimeOrder(h) ==
    \A j \in 1..Len(h) : \A k \in 1..Len(h) :
        (j < k /\ ~NoTimeStamp(h[j].timeStamp) /\ ~NoTimeStamp(h[k].timeStamp)) =>
            h[j].timeStamp <= h[k].timeStamp

\* the yearly aggregate that was returned has the years and the sales and
\* revenue totals of get_yearly_trends
AgreesWithYearlyTrends ==
    LET yearly == GetYearlyTrends(games) IN
    /\ DOMAIN trends = DOMAIN yearly
    /\ \A yr \in DOMAIN trends :
          /\ trends[yr].sales_inc = yearly[yr].sales
          /\ trends[yr].revenue_inc = yearly[yr].revenue

YearlyAggregateReturned ==
    /\ op = "get_history_aggregate" /\ raised = "none" /\ freq = "yearly"
    /\ AllYearsInside(games, window)

\* C26: for every collection whose snapshot years all lie inside the year
\* window, get_history_aggregate(freq = 'yearly') reports for every year the
\* sales_inc and revenue_inc that get_yearly_trends reports as sales and
\* revenue, whatever the order of the snapshots inside each history.
C26_YearlyRollupsAgree == YearlyAggregateReturned => AgreesWithYearlyTrends

\* the part of C26 that holds: the two rollups agree on histories whose
\* snapshots come in time order
C26_HoldsForTimeOrderedHistories ==
    (YearlyAggregateReturned /\ \A g \in 1..Len(games) : DatedInTimeOrder(games[g].history))
        => AgreesWithYearlyTrends

\* a history with two snapshots of 1970, the later one first: the aggregate
\* reports the sales of the later snapshot, get_yearly_trends does not
C26_RollupsDisagree ==
    /\ YearlyAggregateReturned
    /\ Len(games) = 1 /\ Len(games[1].history) = 2
    /\ games[1].history[1].timeStamp > games[1].history[2].timeStamp
    /\ games[1].history[2].timeStamp # 0
    /\ trends[1970].sales_inc = 1
    /\ GetYearlyTrends(games)[1970].sales = 0

\* the window that holds every sampled year
WholeWindow == [year_min |-> 1970, year_max |-> 1972]

\* every period that was returned has the sales_inc and revenue_inc that the
\* whole window gives it
SameAsWholeWindow ==
    LET whole == GetHistoryAggregate(games, freq, WholeWindow) IN
    /\ DOMAIN trends \subseteq DOMAIN whole
    /\ \A p \in DOMAIN trends :
          /\ trends[p].sales_inc = whole[p].sales_inc
          /\ trends[p].revenue_inc = whole[p].revenue_inc

\* C27: narrowing the year window of get_history_aggregate only removes
\* periods: every period inside the window keeps the sales_inc and
\* revenue_inc it has with an unrestricted window (the first in-window
\* increment of a record is measured against its last cumulative value
\* before the window, not against 0).
C27_NarrowingKeepsValues ==
    (op = "get_history_aggregate" /\ raised = "none") => SameAsWholeWindow

\* the part of C27 that holds: a window that starts with the first sampled
\* year and ends earlier only removes the later periods
C27_HoldsWhenOnlyTheEndIsCut ==
    (op = "get_history_aggregate" /\ raised = "none" /\ window.year_min = 1970)
        => SameAsWholeWindow

\* one record with cumulative sales 1 in 1970 and still 1 in 1971: the window
\* 1971..1972 reports the whole 1 as the sales of 1971
C27_BaselineRestartsInsideWindow ==
    /\ op = "get_history_aggregate" /\ raised = "none" /\ freq = "yearly"
    /\ window = [year_min |-> 1971, year_max |-> 1972]
    /\ Len(games) = 1 /\ Len(games[1].history) = 2
    /\ games[1].history[1] = [timeStamp |-> StampIn(1970), sales |-> 1, revenue |-> 0]
    /\ games[1].history[2] = [timeStamp |-> StampIn(1971), sales |-> 1, revenue |-> 0]
    /\ trends[1971].sales_inc = 1
    /\ GetHistoryAggregate(games, freq, WholeWindow)[1971].sales_inc = 0

(***************************************************************************)
(* Further properties of the period increment calculator (SpecInc).        *)
(***************************************************************************)
\* the sum of one field over the periods of an output
RECURSIVE TotalOf(_, _, _)
TotalOf(incs, periods, field) ==
    IF periods = <<>> THEN 0
    ELSE incs[Head(periods)][field] + TotalOf(incs, Tail(periods), field)

\* the field does not decrease from one period of the output to the next
NonDecreasing(incs, periods, field) ==
    \A k \in 1..(Len(periods) - 1) : incs[periods[k]][field] <= incs[periods[k + 1]][field]

\* the increments of an output add up to at least the cumulative value of its
\* last period, and to exactly that value when the cumulative values do not
\* decrease
SumsToLastCumulative(incs, inc, cumulative) ==
    LET periods == SortedKeys(DOMAIN incs) IN
    periods # <<>> =>
        /\ TotalOf(incs, periods, inc) >= incs[periods[Len(periods)]][cumulative]
        /\ NonDecreasing(incs, periods, cumulative) =>
              TotalOf(incs, periods, inc) = incs[periods[Len(periods)]][cumulative]

\* C28: for every history the sum of salesInc over all output periods is at
\* least the cumulativeSales of the last period, and equal to it when the
\* cumulative sales of the winning snapshots do not decrease over the sorted
\* periods; the same holds for revenue.
C28_IncrementsSumToLastCumulative ==
    /\ op = "_get_yearly_increments" =>
          /\ SumsToLastCumulative(increments, "sales", "cumulative_sales")
          /\ SumsToLastCumulative(increments, "revenue", "cumulative_revenue")
    /\ (op = "get_history_for_game" /\ raised = "none") =>
          /\ SumsToLastCumulative(increments, "sales_inc", "cumul_sales")
          /\ SumsToLastCumulative(increments, "revenue_inc", "cumul_revenue")

\* three years with cumulative sales 1, 0, 1: the increments add up to 2,
\* more than the last cumulative value; the revenue stays at 1 and adds up
\* to exactly 1
C28_Witness ==
    /\ op = "_get_yearly_increments"
    /\ DOMAIN increments = {1970, 1971, 1972}
    /\ increments[1970].cumulative_sales = 1
    /\ increments[1971].cumulative_sales = 0
    /\ increments[1972].cumulative_sales = 1
    /\ TotalOf(increments, <<1970, 1971, 1972>>, "sales") = 2
    /\ increments[1970].cumulative_revenue = 1
    /\ increments[1972].cumulative_revenue = 1
    /\ TotalOf(increments, <<1970, 1971, 1972>>, "revenue") = 1

(***************************************************************************)
(* Properties of chains of filter_games calls (SpecChain).                 *)
(***************************************************************************)
\* the criteria of the single call that passes genres, tags and year bounds
GenresTagsYears(c) == [c EXCEPT !.sold_min = None, !.reviews_min = None]

\* the last call of the chain returns what the single call returns
ChainEqualsSingleCall ==
    op' = "apply_filters: years" => filtered' = FilterGames(games, GenresTagsYears(criteria))

\* filtering a result again with the same criteria returns the result
SecondCallChangesNothing == op' = "filter_games again" => filtered' = filtered

\* C29: applying filter_games in sequence, one criterion per call (genres,
\* then tags, then the year bounds), returns the same sequence as one call
\* with all these criteria, and applying the same filter twice returns what
\* applying it once returns.
C29_ChainEqualsSingleCall == [][ChainEqualsSingleCall /\ SecondCallChangesNothing]_vars

\* the chain ran over two records with genres, tags and a year bound chosen:
\* each call had a criterion to apply, and one record was dropped
C29_Witness ==
    /\ op = "apply_filters: years"
    /\ TruthyList(criteria.genres) /\ TruthyList(criteria.tags)
    /\ TruthyInt(criteria.year_min)
    /\ Len(games) = 2
    /\ Len(FilterGames(games, GenresOnly(criteria))) = 2
    /\ Len(FilterGames(games, TagsOnly(criteria))) = 1
    /\ Len(filtered) < Len(FilterGames(games, TagsOnly(criteria)))

(***************************************************************************)
(* Bounds of the overlap ranking (SpecOverlap).                            *)
(***************************************************************************)
\* overlap_pct is kept in tenths of a percent
FullPct == 1000

CountAndPctBounded ==
    \A k \in 1..Len(overlaps) :
        /\ overlaps[k].overlap_game_count <= Len(games)
        /\ overlaps[k].overlap_pct >= 0
        /\ overlaps[k].overlap_pct <= FullPct

\* C30: in every entry of get_audience_overlap_top, overlap_game_count is at
\* most the number of records of the collection and overlap_pct lies between
\* 0 and 100, also when a record lists the same target in more than one
\* edge.
C30_CountAndPctBounded == op = "get_audience_overlap_top" => CountAndPctBounded

\* the part of C30 that holds: collections in which no record lists a target
\* in two surviving edges
C30_HoldsWithoutRepeatedTargets ==
    ( /\ op = "get_audience_overlap_top"
      /\ \A sid \in OverlapTargets :
            Cardinality(EdgesAbove(sid, TopLinkFloor)) = Cardinality(SourcesOf(sid)) )
    => CountAndPctBounded

\* one record that lists target A twice: A is reported with a count of 2 and
\* an overlap of 200 percent
C30_CountAboveRecords ==
    /\ op = "get_audience_overlap_top"
    /\ Len(games) = 1
    /\ games[1].audienceOverlap = <<Edge("A", 20, 1), Edge("A", 40, 2)>>
    /\ Len(overlaps) = 1
    /\ overlaps[1].overlap_game_count = 2
    /\ overlaps[1].overlap_pct = 2 * FullPct

====
